---- MODULE Spec2Model ----
(***************************************************************************)
(* A model of the lesson service of CodeCraft-backend.                     *)
(*                                                                         *)
(*   - the content pipeline of src/controllers/lesson.controller.js       *)
(*     (validateImageUrl, validateEmbedUrl, validateAndCleanLessonContent, *)
(*     sanitizeContent) as operators over a tagged model of JavaScript     *)
(*     values, exercised by the specifications ClassifySpec and SanSpec;   *)
(*   - the lesson handlers of the same controller (createLesson,           *)
(*     updateLesson, deleteLesson, updateLessonContent, duplicateLesson,   *)
(*     togglePublishStatus, reorderLessons and the three reads) as one     *)
(*     action per awaited step, against the Lesson collection declared by  *)
(*     the lesson schema                                                   *)
(*     (its validators, pre-save hook and unique indexes), exercised by    *)
(*     Spec (requests interleave) and SeqSpec (one request at a time).     *)
(***************************************************************************)
EXTENDS Integers, Sequences, FiniteSets, TLC

(***************************************************************************)
(* Bounds of the model.                                                    *)
(***************************************************************************)
MaxBlocks == 2       \* longest blocks array of a raw content document
MaxLessons == 5      \* lesson ids ever allocated (three are seeded)
MaxOrder == 4        \* largest order value a request names
MaxBatch == 2        \* most {lessonId, order} pairs in a reorder request
MaxRequests == 2     \* requests started in one behaviour
MaxRendered == 3     \* longest blocks array of an exported document

(***************************************************************************)
(* JavaScript values.  Every value carries its kind in k; the payload of   *)
(* each kind has its own field name, so values of different kinds are      *)
(* unequal without their payloads being compared.  A string is a sequence  *)
(* of tokens (the pieces the code's substring tests and regular           *)
(* expressions tell apart); an object is a function from its own keys.     *)
(***************************************************************************)
Undef == [k |-> "undef"]
Null == [k |-> "null"]
Bool(b) == [k |-> "bool", b |-> b]
Num(n) == [k |-> "num", n |-> n]
Str(toks) == [k |-> "str", s |-> toks]
S(tok) == Str(<<tok>>)
EmptyStr == Str(<<>>)
Arr(seq) == [k |-> "arr", a |-> seq]
Obj(f) == [k |-> "obj", o |-> f]
EmptyObj == Obj(<<>>)

\* typeof v
TypeOf(v) ==
  CASE v.k = "undef" -> "undefined"
    [] v.k = "bool" -> "boolean"
    [] v.k = "num" -> "number"
    [] v.k = "str" -> "string"
    [] OTHER -> "object"

\* ToBoolean(v): what `!v`, `v || d` and `if (v)` test
Truthy(v) ==
  CASE v.k \in {"undef", "null"} -> FALSE
    [] v.k = "bool" -> v.b
    [] v.k = "num" -> v.n # 0
    [] v.k = "str" -> v.s # <<>>
    [] OTHER -> TRUE

\* a || b
Or(a, b) == IF Truthy(a) THEN a ELSE b

\* Array.isArray(v)
IsArray(v) == v.k = "arr"

\* The keys "0", "1", ... that spreading an array into an object gives it.
IndexKey(i) == ToString(i - 1)

\* v.key for a value that can be read (not null, not undefined): an own
\* key of an object, undefined otherwise (the keys read here are no
\* property of an array, a number, a boolean or a string).
Get(v, key) ==
  IF v.k = "obj" /\ key \in DOMAIN v.o THEN v.o[key] ELSE Undef

\* Reading a property of null or undefined raises a TypeError.
CanRead(v) == v.k \notin {"undef", "null"}

\* { ...v }: the own enumerable keys of v as a fresh object
Spread(v) ==
  CASE v.k = "obj" -> v.o
    [] v.k = "arr" -> [key \in {IndexKey(i) : i \in 1..Len(v.a)} |->
                         v.a[CHOOSE i \in 1..Len(v.a) : IndexKey(i) = key]]
    [] OTHER -> <<>>

\* f with key set to val
Put(f, key, val) == [x \in DOMAIN f \cup {key} |-> IF x = key THEN val ELSE f[x]]

\* ToNumber of a string token, for the relational operators (a token that
\* is no numeral converts to NaN, for which every comparison is false).
Numerals == {"0", "1", "3", "6", "7"}
NumeralValue(tok) ==
  CASE tok = "0" -> 0 [] tok = "1" -> 1 [] tok = "3" -> 3
    [] tok = "6" -> 6 [] tok = "7" -> 7
IsNumeric(v) ==
  \/ v.k \in {"num", "bool", "null"}
  \/ v.k = "str" /\ (v.s = <<>> \/ (Len(v.s) = 1 /\ v.s[1] \in Numerals))
ToNumber(v) ==
  CASE v.k = "num" -> v.n
    [] v.k = "bool" -> IF v.b THEN 1 ELSE 0
    [] v.k = "null" -> 0
    [] v.k = "str" -> IF v.s = <<>> THEN 0 ELSE NumeralValue(v.s[1])
\* a < n and a > n for a number n
LessThan(a, n) == IsNumeric(a) /\ ToNumber(a) < n
GreaterThan(a, n) == IsNumeric(a) /\ ToNumber(a) > n

(***************************************************************************)
(* Strings as token sequences.  The tokens are chosen so that no needle of *)
(* the code's substring tests spans two tokens: a needle occurs in a       *)
(* string exactly when it occurs in one of its tokens.                     *)
(***************************************************************************)
HostTokens == {"example.com", "i.imgur.com", "www.youtube.com", "youtu.be",
               "vimeo.com", "codepen.io", "codesandbox.io"}
Id11Tokens == {"dQw4w9WgXcQ", "jNQXAC9IVRw"}   \* eleven characters of [a-zA-Z0-9_-]
DigitTokens == {"76979871"}              \* \d+
SegmentTokens == {"user", "abc", "photo"} \cup Id11Tokens \cup DigitTokens

\* The needles (of those the code searches for) that occur inside a token.
Parts(tok) ==
  CASE tok = "i.imgur.com" -> {"imgur.com", "i.imgur.com"}
    [] tok = "www.youtube.com" -> {"youtube.com"}
    [] tok = "/maxresdefault.jpg" -> {".jpg"}
    [] tok = "?fmt=.png" -> {".png"}
    [] OTHER -> {tok}

\* String.prototype.toLowerCase, token by token
LowerTok(tok) == IF tok = ".PNG" THEN ".png" ELSE tok
ToLowerCase(s) == [i \in 1..Len(s) |-> LowerTok(s[i])]

\* s.includes(needle)
Includes(s, needle) == \E i \in 1..Len(s) : needle \in Parts(s[i])

\* s.startsWith(prefix), for a prefix that is one token
StartsWith(s, prefix) == Len(s) >= 1 /\ s[1] = prefix

\* Whether the token ends with the host name (the regular expressions are
\* not anchored on the left: www.youtube.com ends with youtube.com).
EndsWithHost(tok, host) == host \in Parts(tok)

\* new URL(s) succeeds: an absolute URL with a host, or a data: URL.
ParsesAsURL(s) ==
  \/ Len(s) >= 2 /\ s[1] = "https://" /\ s[2] \in HostTokens
  \/ Len(s) >= 1 /\ s[1] = "data:image/"

\* new URL(s).hostname
Hostname(s) == IF s[1] = "https://" THEN s[2] ELSE ""

(***************************************************************************)
(* Media URL classifiers.                                                  *)
(***************************************************************************)
\* The places where /(?:youtube\.com\/watch\?v=|youtu\.be\/|
\* youtube\.com\/embed\/)([a-zA-Z0-9_-]{11})/ matches: the index of the
\* captured video id.
YouTubeFirst(s) ==
  {i \in 3..Len(s) :
     /\ s[i] \in Id11Tokens
     /\ \/ EndsWithHost(s[i-2], "youtube.com") /\ s[i-1] \in {"/watch?v=", "/embed/"}
        \/ EndsWithHost(s[i-2], "youtu.be") /\ s[i-1] = "/"}

\* ... where /youtube\.com\/v\/([a-zA-Z0-9_-]{11})/ matches
YouTubeSecond(s) ==
  {i \in 3..Len(s) :
     s[i] \in Id11Tokens /\ EndsWithHost(s[i-2], "youtube.com") /\ s[i-1] = "/v/"}

\* ... where /youtube\.com\/watch\?.*v=([a-zA-Z0-9_-]{11})/ can match
YouTubeThird(s) ==
  {i \in 3..Len(s) :
     /\ s[i] \in Id11Tokens
     /\ EndsWithHost(s[i-2], "youtube.com")
     /\ s[i-1] \in {"/watch?v=", "/watch?feature=x&v="}}

\* Smallest element of a non-empty set of integers (the leftmost match).
Min(set) == CHOOSE x \in set : \A y \in set : x <= y

\* ... and the largest (the greedy .* of the third pattern runs to the last
\* v= that an id follows).
Max(set) == CHOOSE x \in set : \A y \in set : y <= x

\* The index of match[1] for the first of the three patterns that matches
\* (0 when none does).
YouTubeMatch(s) ==
  IF YouTubeFirst(s) # {} THEN Min(YouTubeFirst(s))
  ELSE IF YouTubeSecond(s) # {} THEN Min(YouTubeSecond(s))
  ELSE IF YouTubeThird(s) # {} THEN Max(YouTubeThird(s))
  ELSE 0

\* validateYouTubeUrl whose patterns are anchored at the host of the URL: a
\* YouTube address later in the string is not looked at.
validateYouTubeUrl_HostOnly(url) ==
  IF ~Truthy(url) \/ TypeOf(url) # "string" THEN Null
  ELSE IF YouTubeMatch(url.s) # 3 THEN Null
  ELSE Obj([videoId |-> S(url.s[3]),
            embedUrl |-> Str(<<"https://", "www.youtube.com", "/embed/", url.s[3]>>),
            thumbnailUrl |-> Str(<<"https://", "img.youtube.com", "/vi/", url.s[3], "/maxresdefault.jpg">>),
            originalUrl |-> url])

validateYouTubeUrl(url) ==
  IF ~Truthy(url) \/ TypeOf(url) # "string" THEN Null
  ELSE IF YouTubeMatch(url.s) = 0 THEN Null
  ELSE LET id == url.s[YouTubeMatch(url.s)] IN
       Obj([videoId |-> S(id),
            embedUrl |-> Str(<<"https://", "www.youtube.com", "/embed/", id>>),
            thumbnailUrl |-> Str(<<"https://", "img.youtube.com", "/vi/", id, "/maxresdefault.jpg">>),
            originalUrl |-> url])

imageExtensions == {".jpg", ".jpeg", ".png", ".gif", ".webp", ".svg", ".bmp", ".ico"}
imageDomains == {"imgur.com", "i.imgur.com", "unsplash.com", "images.unsplash.com",
                 "pixabay.com", "cdn.pixabay.com", "pexels.com", "images.pexels.com",
                 "githubusercontent.com", "raw.githubusercontent.com",
                 "cloudinary.com", "res.cloudinary.com", "amazonaws.com",
                 "s3.amazonaws.com", "googleusercontent.com", "cdn.jsdelivr.net",
                 "cdnjs.cloudflare.com", "wikimedia.org", "freepik.com",
                 "shutterstock.com"}

validateImageUrl(url) ==
  IF ~Truthy(url) \/ TypeOf(url) # "string"
  THEN Obj([isValid |-> Bool(FALSE), message |-> S("URL is required")])
  ELSE IF ~ParsesAsURL(url.s)
  THEN Obj([isValid |-> Bool(FALSE), hasExtension |-> Bool(FALSE),
            isFromTrustedDomain |-> Bool(FALSE), isDataUrl |-> Bool(FALSE),
            message |-> S("Invalid URL format")])
  ELSE LET hasImageExtension == \E ext \in imageExtensions : Includes(ToLowerCase(url.s), ext)
           isFromImageDomain == \E domain \in imageDomains : Includes(url.s, domain)
           isDataUrl == StartsWith(url.s, "data:image/")
           ok == hasImageExtension \/ isFromImageDomain \/ isDataUrl
       IN Obj([isValid |-> Bool(ok),
               hasExtension |-> Bool(hasImageExtension),
               isFromTrustedDomain |-> Bool(isFromImageDomain),
               isDataUrl |-> Bool(isDataUrl),
               message |-> IF ok THEN S("Valid image URL")
                           ELSE S("URL should point to an image file or be from a trusted image hosting service")])

\* url.match(/vimeo\.com\/(?:video\/)?(\d+)/): the index of the captured id
VimeoMatches(s) ==
  {i \in 3..Len(s) :
     /\ s[i] \in DigitTokens
     /\ EndsWithHost(s[i-2], "vimeo.com")
     /\ s[i-1] \in {"/", "/video/"}}

\* url.match(/codepen\.io\/([^\/]+)\/pen\/([^\/\?]+)/): the index of the pen
CodepenMatches(s) ==
  {i \in 5..Len(s) :
     /\ s[i] \in SegmentTokens
     /\ s[i-1] = "/pen/"
     /\ s[i-2] \in SegmentTokens
     /\ s[i-3] = "/"
     /\ EndsWithHost(s[i-4], "codepen.io")}

trustedDomains == {"codesandbox.io", "stackblitz.com", "replit.com", "jsfiddle.net",
                   "slides.com", "docs.google.com", "figma.com"}

validateEmbedUrl(url) ==
  IF ~Truthy(url) \/ TypeOf(url) # "string"
  THEN Obj([isValid |-> Bool(FALSE), message |-> S("URL is required")])
  ELSE IF ~ParsesAsURL(url.s)
  THEN Obj([isValid |-> Bool(FALSE), message |-> S("Invalid URL format")])
  ELSE LET youtubeData == validateYouTubeUrl(url) IN
  IF Truthy(youtubeData)
  THEN Obj([isValid |-> Bool(TRUE), service |-> S("youtube"),
            embedUrl |-> Get(youtubeData, "embedUrl"),
            thumbnailUrl |-> Get(youtubeData, "thumbnailUrl"),
            videoId |-> Get(youtubeData, "videoId"),
            originalUrl |-> url, width |-> Num(560), height |-> Num(315)])
  ELSE IF VimeoMatches(url.s) # {}
  THEN LET id == url.s[Min(VimeoMatches(url.s))] IN
       Obj([isValid |-> Bool(TRUE), service |-> S("vimeo"),
            embedUrl |-> Str(<<"https://", "player.vimeo.com", "/video/", id>>),
            videoId |-> S(id),
            originalUrl |-> url, width |-> Num(640), height |-> Num(360)])
  ELSE IF CodepenMatches(url.s) # {}
  THEN LET i == Min(CodepenMatches(url.s)) IN
       Obj([isValid |-> Bool(TRUE), service |-> S("codepen"),
            embedUrl |-> Str(<<"https://", "codepen.io", "/", url.s[i-2], "/embed/", url.s[i]>>),
            originalUrl |-> url, width |-> Num(800), height |-> Num(400)])
  ELSE IF \E trusted \in trustedDomains : trusted \in Parts(Hostname(url.s))
  THEN Obj([isValid |-> Bool(TRUE), service |-> S("iframe"),
            embedUrl |-> url, originalUrl |-> url,
            width |-> Num(800), height |-> Num(600)])
  ELSE Obj([isValid |-> Bool(FALSE),
            message |-> S("URL is not from a supported embed service")])

(***************************************************************************)
(* The sanitizer: validateAndCleanLessonContent and sanitizeContent.       *)
(* Date.now() is the parameter now; the random suffix of a generated block *)
(* id is the i-th draw of the call's random stream rnd.                    *)
(***************************************************************************)
DefaultVersion == S("2.28.2")

\* { ...f, ...g }
Merge(f, g) == [x \in DOMAIN f \cup DOMAIN g |-> IF x \in DOMAIN g THEN g[x] ELSE f[x]]

\* `block_${Date.now()}_${Math.random().toString(36).substr(2, 9)}`
GeneratedId(i, now, rnd) == Str(<<"block_", ToString(now), "_", rnd, ToString(i)>>)

\* The value thrown by a read of a property of null or undefined.
TypeError == [k |-> "throw", e |-> "TypeError"]

\* KeepsBlock without the `!block` test: null, whose typeof is "object",
\* reaches the loop body.
KeepsBlock_NoNullTest(block) == TypeOf(block) = "object"

\* KeepsBlock with an Array.isArray test added: an array entry is skipped.
KeepsBlock_DropsArrays(block) ==
  Truthy(block) /\ TypeOf(block) = "object" /\ ~IsArray(block)

\* The loop keeps a block unless `!block || typeof block !== 'object'`.
KeepsBlock(block) == Truthy(block) /\ TypeOf(block) = "object"

\* RepairedType with the test `!block.type` alone: a number stays the type.
RepairedType_OnlyMissing(block) ==
  IF ~Truthy(Get(block, "type")) THEN S("paragraph") ELSE Get(block, "type")

\* block.type after the repair of lines 211-214
RepairedType(block) ==
  LET t == Get(block, "type") IN
  IF ~Truthy(t) \/ TypeOf(t) # "string" THEN S("paragraph") ELSE t

\* block.data after the repair of lines 217-219
RepairedData(block) ==
  LET d == Get(block, "data") IN
  IF ~Truthy(d) \/ TypeOf(d) # "object" THEN EmptyObj ELSE d

\* case 'header'
CleanHeader(data, d) ==
  LET level == Get(data, "level") IN
  IF Truthy(level) /\ (LessThan(level, 1) \/ GreaterThan(level, 6))
  THEN Put(d, "level", Num(2)) ELSE d

\* CleanList without the Array.isArray test of line 241.
CleanList_KeepsItems(data, d) ==
  IF Get(data, "style") \notin {S("ordered"), S("unordered"), S("checklist")}
  THEN Put(d, "style", S("unordered")) ELSE d

\* case 'list'
validStyles == {S("ordered"), S("unordered"), S("checklist")}
CleanList(data, d) ==
  LET d1 == IF Get(data, "style") \notin validStyles
            THEN Put(d, "style", S("unordered")) ELSE d
  IN IF ~IsArray(Get(data, "items")) THEN Put(d1, "items", Arr(<<>>)) ELSE d1

\* case 'image': the data for the outcome of validateImageUrl
ImageFields(data, d, imageValidation) ==
  IF Truthy(Get(imageValidation, "isValid"))
  THEN Merge(d, [url |-> Get(data, "url"),
                 alt |-> Or(Get(data, "alt"), Or(Get(data, "caption"), EmptyStr)),
                 caption |-> Or(Get(data, "caption"), EmptyStr),
                 stretched |-> Or(Get(data, "stretched"), Bool(FALSE)),
                 withBorder |-> Or(Get(data, "withBorder"), Bool(FALSE)),
                 withBackground |-> Or(Get(data, "withBackground"), Bool(FALSE))])
  ELSE Merge(d, [invalid |-> Bool(TRUE),
                 invalidReason |-> Get(imageValidation, "message")])
CleanImage(data, d) ==
  IF ~Truthy(Get(data, "url")) THEN d
  ELSE ImageFields(data, d, validateImageUrl(Get(data, "url")))

\* EmbedFields without lines 289-290: a rejected URL leaves the data alone.
EmbedFields_NoMark(data, d, embedValidation) ==
  IF Truthy(Get(embedValidation, "isValid"))
  THEN Merge(Merge(d, [service |-> Get(embedValidation, "service"),
                       url |-> Get(embedValidation, "originalUrl"),
                       embed |-> Get(embedValidation, "embedUrl"),
                       width |-> Get(embedValidation, "width"),
                       height |-> Get(embedValidation, "height"),
                       caption |-> Or(Get(data, "caption"), EmptyStr)]),
             IF Get(embedValidation, "service") = S("youtube")
             THEN [videoId |-> Get(embedValidation, "videoId"),
                   thumbnail |-> Get(embedValidation, "thumbnailUrl")]
             ELSE <<>>)
  ELSE d

\* case 'video': case 'embed': the data for the outcome of validateEmbedUrl
EmbedFields(data, d, embedValidation) ==
  IF Truthy(Get(embedValidation, "isValid"))
  THEN LET d1 == Merge(d,
                   [service |-> Get(embedValidation, "service"),
                    url |-> Get(embedValidation, "originalUrl"),
                    embed |-> Get(embedValidation, "embedUrl"),
                    width |-> Or(Get(embedValidation, "width"),
                                 Or(Get(data, "width"), Num(560))),
                    height |-> Or(Get(embedValidation, "height"),
                                  Or(Get(data, "height"), Num(315))),
                    caption |-> Or(Get(data, "caption"), EmptyStr)])
       IN IF Get(embedValidation, "service") = S("youtube")
          THEN Merge(d1, [videoId |-> Get(embedValidation, "videoId"),
                          thumbnail |-> Get(embedValidation, "thumbnailUrl")])
          ELSE d1
  ELSE Merge(d, [invalid |-> Bool(TRUE),
                 invalidReason |-> Get(embedValidation, "message")])
CleanEmbed(data, d) ==
  IF ~(Truthy(Get(data, "url")) \/ Truthy(Get(data, "source"))) THEN d
  ELSE EmbedFields(data, d, validateEmbedUrl(Or(Get(data, "url"), Get(data, "source"))))

\* case 'code'
CleanCode(data, d) ==
  Merge(d, [code |-> Or(Get(data, "code"), EmptyStr),
            language |-> Or(Get(data, "language"), S("javascript"))])

\* case 'quote'
CleanQuote(data, d) ==
  Merge(d, [text |-> Or(Get(data, "text"), EmptyStr),
            caption |-> Or(Get(data, "caption"), EmptyStr),
            alignment |-> Or(Get(data, "alignment"), S("left"))])

\* case 'table'
CleanTable(data, d) ==
  LET d1 == IF ~IsArray(Get(data, "content"))
            THEN Put(d, "content", Arr(<<Arr(<<EmptyStr>>)>>)) ELSE d
  IN Put(d1, "withHeadings", Or(Get(data, "withHeadings"), Bool(FALSE)))

\* case 'warning'
CleanWarning(data, d) ==
  Merge(d, [title |-> Or(Get(data, "title"), S("Warning")),
            message |-> Or(Get(data, "message"), EmptyStr)])

\* The switch on block.type (lines 229-318): processedBlock.data.
CleanData(type, data, d) ==
  CASE type = S("header") -> CleanHeader(data, d)
    [] type = S("list") -> CleanList(data, d)
    [] type = S("image") -> CleanImage(data, d)
    [] type \in {S("video"), S("embed")} -> CleanEmbed(data, d)
    [] type = S("code") -> CleanCode(data, d)
    [] type = S("quote") -> CleanQuote(data, d)
    [] type = S("table") -> CleanTable(data, d)
    [] type = S("warning") -> CleanWarning(data, d)
    [] OTHER -> d

\* The body of the loop for a block the loop keeps: processedBlock.
CleanBlock(block, i, now, rnd) ==
  IF ~CanRead(block) THEN TypeError
  ELSE Obj([id |-> Or(Get(block, "id"), GeneratedId(i, now, rnd)),
            type |-> RepairedType(block),
            data |-> Obj(CleanData(RepairedType(block), RepairedData(block),
                                   Spread(RepairedData(block))))])

\* cleanBlocks after the loop has run over blocks[i..]
RECURSIVE CleanFrom(_, _, _, _)
CleanFrom(blocks, i, now, rnd) ==
  IF i > Len(blocks) THEN <<>>
  ELSE LET rest == CleanFrom(blocks, i + 1, now, rnd) IN
       IF KeepsBlock(blocks[i])
       THEN <<CleanBlock(blocks[i], i, now, rnd)>> \o rest
       ELSE rest

\* The document the function returns as cleanContent.
Document(time, blocks, version) ==
  Obj([time |-> time, blocks |-> Arr(blocks), version |-> version])

\* Returned with the time stamped anew on every call instead of
\* `content.time || Date.now()`.
Returned_FreshTime(content, cleanBlocks, now) ==
  [isValid |-> TRUE,
   cleanContent |-> Document(Num(now), cleanBlocks, Or(Get(content, "version"), DefaultVersion))]

\* What the function returns once the loop has left cleanBlocks (an
\* exception of the loop body is caught by nobody in the function).
Returned(content, cleanBlocks, now) ==
  IF \E j \in 1..Len(cleanBlocks) : cleanBlocks[j] = TypeError
  THEN [isValid |-> FALSE, cleanContent |-> TypeError]
  ELSE [isValid |-> TRUE,
        cleanContent |-> Document(Or(Get(content, "time"), Num(now)), cleanBlocks,
                                  Or(Get(content, "version"), DefaultVersion))]

validateAndCleanLessonContent(content, now, rnd) ==
  IF ~Truthy(content) \/ TypeOf(content) # "object"
  THEN [isValid |-> TRUE, cleanContent |-> Document(Num(now), <<>>, DefaultVersion)]
  ELSE IF ~Truthy(Get(content, "blocks")) \/ ~IsArray(Get(content, "blocks"))
  THEN [isValid |-> TRUE,
        cleanContent |-> Document(Or(Get(content, "time"), Num(now)), <<>>,
                                  Or(Get(content, "version"), DefaultVersion))]
  ELSE Returned(content, CleanFrom(Get(content, "blocks").a, 1, now, rnd), now)

sanitizeContent(content, now, rnd) ==
  validateAndCleanLessonContent(content, now, rnd).cleanContent

\* An entry of content.blocks once the loop has passed it: the assignments
\* of lines 213 and 218 are made to the entry itself.  An array entry gets
\* type and data as properties of its own (the field o).
BlockAfter(block) ==
  IF ~KeepsBlock(block) THEN block
  ELSE IF IsArray(block)
  THEN [k |-> "arr", a |-> block.a, o |-> [type |-> S("paragraph"), data |-> EmptyObj]]
  ELSE Obj(Put(Put(Spread(block), "type", RepairedType(block)),
               "data", RepairedData(block)))

\* The object passed to validateAndCleanLessonContent, after the call.
ArgumentAfter(content) ==
  IF ~Truthy(content) \/ TypeOf(content) # "object" THEN content
  ELSE IF ~Truthy(Get(content, "blocks")) \/ ~IsArray(Get(content, "blocks")) THEN content
  ELSE Obj(Put(Spread(content), "blocks",
               Arr([i \in 1..Len(Get(content, "blocks").a) |->
                      BlockAfter(Get(content, "blocks").a[i])])))

(***************************************************************************)
(* The strict validators: validateContent of the lesson schema and         *)
(* validateLessonContent of the controller.  Each returns at the first     *)
(* violation it finds; a message is the sequence of its pieces.            *)
(***************************************************************************)
Valid == [isValid |-> TRUE, message |-> <<>>]
Invalid(message) == [isValid |-> FALSE, message |-> message]

\* `Block ${i + 1} ...` for the array position i (from 1 here)
BlockMessage(i, what) == <<"Block ", ToString(i), what>>

\* The loop of validateContent over blocks[i..]
RECURSIVE ContentBlocksFrom(_, _)
ContentBlocksFrom(blocks, i) ==
  IF i > Len(blocks) THEN Valid
  ELSE IF ~Truthy(blocks[i]) \/ TypeOf(blocks[i]) # "object"
  THEN Invalid(BlockMessage(i, " must be a valid object"))
  ELSE IF ~Truthy(Get(blocks[i], "type")) \/ TypeOf(Get(blocks[i], "type")) # "string"
  THEN Invalid(BlockMessage(i, " must have a valid type"))
  ELSE IF ~Truthy(Get(blocks[i], "data")) \/ TypeOf(Get(blocks[i], "data")) # "object"
  THEN Invalid(BlockMessage(i, " must have valid data"))
  ELSE ContentBlocksFrom(blocks, i + 1)

\* lessonSchema.methods.validateContent, of this.content
validateContent(content) ==
  IF ~Truthy(content)
  THEN Invalid(<<"Content is required">>)
  ELSE IF ~Truthy(Get(content, "blocks")) \/ ~IsArray(Get(content, "blocks"))
  THEN Invalid(<<"Content must have blocks array">>)
  ELSE IF ~Truthy(Get(content, "time")) \/ TypeOf(Get(content, "time")) # "number"
  THEN Invalid(<<"Content must have time field">>)
  ELSE IF ~Truthy(Get(content, "version")) \/ TypeOf(Get(content, "version")) # "string"
  THEN Invalid(<<"Content must have version field">>)
  ELSE ContentBlocksFrom(Get(content, "blocks").a, 1)

\* The loop of validateLessonContent over blocks[i..]: block.type is read
\* of whatever the entry is.
RECURSIVE LessonBlocksFrom(_, _)
LessonBlocksFrom(blocks, i) ==
  IF i > Len(blocks) THEN Valid
  ELSE IF ~CanRead(blocks[i]) THEN TypeError
  ELSE IF ~Truthy(Get(blocks[i], "type"))
  THEN Invalid(BlockMessage(i, " is missing a type"))
  ELSE LessonBlocksFrom(blocks, i + 1)

validateLessonContent(content) ==
  IF ~Truthy(content) \/ TypeOf(content) # "object"
  THEN Invalid(<<"Content must be a valid object">>)
  ELSE IF ~Truthy(Get(content, "blocks")) \/ ~IsArray(Get(content, "blocks"))
  THEN Invalid(<<"Content must have a blocks array">>)
  ELSE LessonBlocksFrom(Get(content, "blocks").a, 1)

(***************************************************************************)
(* Raw inputs of the sanitizer: what a request body (parsed JSON) or a     *)
(* stored document can hold.                                               *)
(***************************************************************************)
ImgurPng == Str(<<"https://", "i.imgur.com", "/", "abc", ".png">>)
PlainPage == Str(<<"https://", "example.com", "/", "photo">>)
NotAUrl == Str(<<"not a url">>)
YouTubeWatch == Str(<<"https://", "www.youtube.com", "/watch?v=", "dQw4w9WgXcQ">>)
VimeoVideo == Str(<<"https://", "vimeo.com", "/", "76979871">>)
CodepenPen == Str(<<"https://", "codepen.io", "/", "user", "/pen/", "abc">>)
Sandbox == Str(<<"https://", "codesandbox.io", "/", "abc">>)

\* Entries of a blocks array that are no objects, and an array entry.
NonObjectEntries == {Null, Num(7), S("text"), Bool(TRUE)}

RawBlocks ==
  NonObjectEntries \cup {Arr(<<>>)} \cup
  \* the id field
  {Obj([id |-> id, type |-> S("paragraph"), data |-> Obj([text |-> S("hi")])]) :
     id \in {S("b1"), EmptyStr, Num(7)}} \cup
  \* the type field
  {Obj([id |-> S("b2"), type |-> type, data |-> Obj([text |-> S("hi")])]) :
     type \in {Num(3), EmptyStr, Null, S("custom")}} \cup
  {Obj([data |-> Obj([text |-> S("hi")])]), EmptyObj} \cup
  \* the data field
  {Obj([id |-> S("b3"), type |-> S("paragraph"), data |-> data]) :
     data \in {Null, S("x"), Arr(<<S("x")>>)}} \cup
  {Obj([type |-> S("header"), data |-> Obj([text |-> S("h"), level |-> level])]) :
     level \in {Num(0), Num(3), Num(7), S("7"), S("abc")}} \cup
  {Obj([type |-> S("header"), data |-> Obj([text |-> S("h")])])} \cup
  {Obj([type |-> S("list"), data |-> data]) :
     data \in {EmptyObj,
               Obj([style |-> S("ordered"), items |-> Arr(<<S("a"), Obj([content |-> S("b")])>>)]),
               Obj([style |-> S("bogus"), items |-> S("a")])}} \cup
  {Obj([type |-> S("image"), data |-> data]) :
     data \in {EmptyObj,
               Obj([url |-> ImgurPng, caption |-> S("cap")]),
               Obj([url |-> PlainPage]),
               Obj([url |-> NotAUrl, invalid |-> Bool(FALSE)]),
               Obj([url |-> Num(5)])}} \cup
  {Obj([type |-> type, data |-> data]) :
     type \in {S("video"), S("embed")},
     data \in {Obj([url |-> YouTubeWatch]),
               Obj([source |-> VimeoVideo, width |-> Num(100)]),
               Obj([url |-> PlainPage])}} \cup
  {Obj([type |-> S("embed"), data |-> data]) :
     data \in {EmptyObj, Obj([url |-> CodepenPen]), Obj([url |-> Sandbox, caption |-> S("cap")])}} \cup
  {Obj([type |-> S("code"), data |-> data]) :
     data \in {EmptyObj, Obj([code |-> S("x = 1"), language |-> S("python")])}} \cup
  {Obj([type |-> S("quote"), data |-> data]) :
     data \in {EmptyObj, Obj([text |-> S("q"), alignment |-> S("center")])}} \cup
  {Obj([type |-> S("table"), data |-> data]) :
     data \in {EmptyObj,
               Obj([content |-> Arr(<<Arr(<<S("a")>>)>>), withHeadings |-> Bool(TRUE)]),
               Obj([content |-> Arr(<<S("row")>>)]),
               Obj([content |-> S("x")])}} \cup
  {Obj([type |-> S("warning"), data |-> data]) :
     data \in {EmptyObj, Obj([title |-> S("t"), message |-> S("m")])}}

\* All sequences over set of length at most n.
RECURSIVE SeqsUpTo(_, _)
SeqsUpTo(set, n) ==
  IF n = 0 THEN {<<>>}
  ELSE LET shorter == SeqsUpTo(set, n - 1) IN
       shorter \cup {Append(s, x) : s \in {q \in shorter : Len(q) = n - 1}, x \in set}

\* The time and version fields a raw document comes with.
RawHeaders ==
  {<<>>,
   [time |-> Num(5), version |-> S("2.0")],
   [time |-> Num(0), version |-> EmptyStr],
   [time |-> S("noon"), version |-> Num(2)]}

\* Raw documents: the degenerate ones, every header with at most one
\* block, and every blocks array of up to MaxBlocks entries under one header.
RawContents ==
  {Null, Undef, Num(5), S("text"), Arr(<<>>), EmptyObj,
   Obj([blocks |-> S("not-an-array")]),
   Obj([blocks |-> Null, time |-> Num(5)]),
   Obj([blocks |-> Obj([length |-> Num(1)]), version |-> S("2.0")])} \cup
  {Obj(Put(h, "blocks", Arr(blocks))) : h \in RawHeaders, blocks \in SeqsUpTo(RawBlocks, 1)} \cup
  {Obj([time |-> Num(5), blocks |-> Arr(blocks), version |-> S("2.0")]) :
     blocks \in SeqsUpTo(RawBlocks, MaxBlocks)}

\* The URLs the classifiers are given: every host with every path and
\* every query, the query holding an extension, a domain name or the
\* address of another service; a data: URL; strings that are no URL; values
\* that are no string.
UrlPaths ==
  {<<>>, <<"/", "photo">>, <<"/", "abc", ".png">>, <<"/", "abc", ".PNG">>,
   <<"/watch?v=", "dQw4w9WgXcQ">>, <<"/", "dQw4w9WgXcQ">>, <<"/embed/", "dQw4w9WgXcQ">>,
   <<"/v/", "dQw4w9WgXcQ">>, <<"/watch?feature=x&v=", "dQw4w9WgXcQ">>,
   <<"/", "76979871">>, <<"/video/", "76979871">>, <<"/", "user", "/pen/", "abc">>}
UrlQueries ==
  {<<>>, <<"?fmt=.png">>, <<"?ref=", "imgur.com">>,
   <<"?u=", "youtu.be", "/", "jNQXAC9IVRw">>,
   <<"?u=", "vimeo.com", "/", "76979871">>,
   <<"?u=", "codepen.io", "/", "user", "/pen/", "abc">>}
Urls ==
  {Str(<<"https://", host>> \o path \o query) :
     host \in HostTokens, path \in UrlPaths, query \in UrlQueries} \cup
  {Str(<<"data:image/", "png;base64,AAAA">>), Str(<<"not a url">>),
   Str(<<"youtu.be", "/", "dQw4w9WgXcQ">>), Str(<<"photo", ".png">>),
   EmptyStr, Null, Undef, Num(5), Obj([href |-> S("x")])}

\* Values of Date.now() and random streams of a call.
Times == {1000, 2000}
RandomStreams == {"k7", "m2"}

(***************************************************************************)
(* State.                                                                  *)
(*   raw, clean, again, sanPc: a raw content document, sanitizeContent of  *)
(*     it, sanitizeContent of that, and how far the two calls have run;    *)
(*   arg: the object that was passed to the first call, as it is in memory *)
(*     (raw is what it held when it was passed);                           *)
(*   classified: what the media classifiers return for the URL in raw;     *)
(*   lessons: the Lesson collection, a function from the _id of each       *)
(*     stored lesson to its document;                                      *)
(*   nextId: the next _id to allocate;                                     *)
(*   req: the requests in flight, one per slot: the handler (op), the      *)
(*     awaited step it stands at (pc), its parameters and body (a), its    *)
(*     local variables (loc), its response (resp) and, for the            *)
(*     properties, the collection as it was when the request arrived       *)
(*     (before);                                                           *)
(*   verdict: what the strict validators return for raw;                   *)
(*   rendered: the HTML and the text exported for clean;                   *)
(*   started: the number of requests that have arrived, which is also the  *)
(*     clock that new Date() and Date.now() read.                          *)
(***************************************************************************)
VARIABLES raw, arg, clean, again, sanPc, verdict, rendered, classified,
          lessons, nextId, req, started

vars == <<raw, arg, clean, again, sanPc, verdict, rendered, classified,
          lessons, nextId, req, started>>
sanVars == <<raw, arg, clean, again, sanPc, verdict, rendered, classified>>
svcVars == <<lessons, nextId, req, started>>

NotYet == [k |-> "none"]

(***************************************************************************)
(* The sanitizer applied once and twice.                                   *)
(***************************************************************************)
SanInit ==
  /\ raw \in RawContents
  /\ arg = raw
  /\ clean = NotYet
  /\ again = NotYet
  /\ verdict = NotYet
  /\ rendered = NotYet
  /\ classified = NotYet
  /\ sanPc = "fresh"

\* clean = sanitizeContent(raw)
SanitizeOnce ==
  /\ sanPc = "fresh"
  /\ \E now \in Times, rnd \in RandomStreams :
       clean' = sanitizeContent(raw, now, rnd)
  /\ arg' = ArgumentAfter(raw)
  /\ sanPc' = "once"
  /\ UNCHANGED <<raw, again, verdict, rendered, classified, svcVars>>

\* again = sanitizeContent(clean), unless the first call threw
SanitizeTwice ==
  /\ sanPc = "once"
  /\ clean # TypeError
  /\ \E now \in Times, rnd \in RandomStreams :
       again' = sanitizeContent(clean, now, rnd)
  /\ sanPc' = "twice"
  /\ UNCHANGED <<raw, arg, clean, verdict, rendered, classified, svcVars>>

\* verdict = what each strict validator returns for raw
ValidateStrict ==
  /\ sanPc = "fresh"
  /\ verdict' = [validateContent |-> validateContent(raw),
                 validateLessonContent |-> validateLessonContent(raw)]
  /\ sanPc' = "validated"
  /\ UNCHANGED <<raw, arg, clean, again, rendered, classified, svcVars>>

\* classified = what each classifier returns for the URL
Classify ==
  /\ sanPc = "fresh"
  /\ classified' = [image |-> validateImageUrl(raw), embed |-> validateEmbedUrl(raw)]
  /\ sanPc' = "classified"
  /\ UNCHANGED <<raw, arg, clean, again, verdict, rendered, svcVars>>

(***************************************************************************)
(* The Lesson collection: schema validators, the pre-save hook and the     *)
(* unique indexes of the lesson schema.  A title is a sequence of words    *)
(* (" " is white space); a slug is the sequence of its parts.              *)
(***************************************************************************)
Reqs == {"r1", "r2"}
Tutorials == {"T1", "T2"}

\* Date values: the seed's publishedAt, and the clock.
NoDate == 0
SeedDate == 1
Now == SeedDate + started

\* title.trim()
RECURSIVE TrimLeft(_)
TrimLeft(title) ==
  IF title # <<>> /\ Head(title) = " " THEN TrimLeft(Tail(title)) ELSE title
Reverse(seq) == [i \in 1..Len(seq) |-> seq[Len(seq) + 1 - i]]
Trim(title) == Reverse(TrimLeft(Reverse(TrimLeft(title))))

\* What slugify(word, {lower: true, strict: true}) leaves of one word.
SlugPart(word) ==
  CASE word \in {"Intro", "intro!"} -> <<"intro">>
    [] word = "Elements" -> <<"elements">>
    [] word = "Forms" -> <<"forms">>
    [] word = "Basics" -> <<"basics">>
    [] word = " (Copy)" -> <<"copy">>
    [] OTHER -> <<>>
RECURSIVE slugify(_)
slugify(title) ==
  IF title = <<>> THEN <<>> ELSE SlugPart(Head(title)) \o slugify(Tail(title))

\* The number of characters of a title.
WordLength(word) ==
  CASE word = " (Copy)" -> 7
    [] word = " " -> 1
    [] word = "Essay" -> 195
    [] OTHER -> 6
RECURSIVE TitleLength(_)
TitleLength(title) ==
  IF title = <<>> THEN 0 ELSE WordLength(Head(title)) + TitleLength(Tail(title))

\* contentBlockSchema.type.enum
blockTypeEnum ==
  {"paragraph", "text", "header", "list", "checklist", "code", "quote",
   "warning", "delimiter", "table", "image", "video", "quiz", "embed",
   "raw", "attaches", "linkTool", "marker", "inlineCode"}

\* The validators of lessonSchema that a document fails.
ErrorIf(cond, message) == IF cond THEN {message} ELSE {}
HasBlockOutsideEnum(content) ==
  \E i \in 1..Len(Get(content, "blocks").a) :
    LET type == Get(Get(content, "blocks").a[i], "type") IN
    ~(Len(type.s) = 1 /\ type.s[1] \in blockTypeEnum)
SchemaErrors(doc) ==
  ErrorIf(doc.title = <<>>, "Title is required") \cup
  ErrorIf(TitleLength(doc.title) > 200, "Title cannot exceed 200 characters") \cup
  ErrorIf(doc.order < 1, "Order must be at least 1") \cup
  ErrorIf(doc.duration < 1, "Duration must be at least 1 minute") \cup
  ErrorIf(doc.duration > 300, "Duration cannot exceed 300 minutes") \cup
  ErrorIf(HasBlockOutsideEnum(doc.content), "not a valid enum value for path type")

\* lessonSchema.pre('save'): the slug follows a modified title; publishedAt
\* is set when a modified isPublished is true and no date is there, and
\* cleared when a modified isPublished is false.
PreSave(doc, modified, now) ==
  [doc EXCEPT
     !.slug = IF "title" \in modified THEN slugify(doc.title) ELSE @,
     !.publishedAt =
        IF "isPublished" \in modified /\ doc.isPublished /\ @ = NoDate THEN now
        ELSE IF "isPublished" \in modified /\ ~doc.isPublished THEN NoDate
        ELSE @]

\* IndexViolations without the index of line 370: only the slug is unique.
IndexViolations_NoOrderIndex(store, doc, self) ==
  {"slug" : x \in {id \in DOMAIN store \ {self} : store[id].slug = doc.slug}}

\* The unique indexes ({slug: 1} of the slug path, {tutorial: 1, order: 1})
\* that document doc, stored under id self, would violate in store.
IndexViolations(store, doc, self) ==
  {"slug" : x \in {id \in DOMAIN store \ {self} : store[id].slug = doc.slug}} \cup
  {"tutorial_order" : x \in {id \in DOMAIN store \ {self} :
      store[id].tutorial = doc.tutorial /\ store[id].order = doc.order}}

\* What a write (a validated insert or save) can come to: "ok", a
\* ValidationError of the document in memory, or a duplicate key error
\* (code 11000) that names in keyPattern a unique index the document as
\* written under id self would violate.
WriteOutcomes(store, doc, written, self) ==
  IF SchemaErrors(doc) # {} THEN {"ValidationError"}
  ELSE IF IndexViolations(store, written, self) # {}
  THEN {"E11000_" \o ix : ix \in IndexViolations(store, written, self)}
  ELSE {"ok"}

\* The collection the seed script leaves: three published lessons, ordered
\* 1, 2, 3, in the first tutorial.
EmptyDocument == Document(Num(SeedDate), <<>>, DefaultVersion)
SeedLesson(title, order) ==
  [tutorial |-> "T1", order |-> order, title |-> title, slug |-> slugify(title),
   content |-> EmptyDocument, duration |-> 15, isPublished |-> TRUE,
   publishedAt |-> SeedDate]
SeededLessons ==
  <<SeedLesson(<<"Intro">>, 1), SeedLesson(<<"Elements">>, 2), SeedLesson(<<"Forms">>, 3)>>

(***************************************************************************)
(* The exports: generateHTMLFromLesson and generateTextFromLesson.  The    *)
(* string a function builds is a Str of its pieces; a function that throws *)
(* yields the exception.  A lesson here is a stored lesson with its        *)
(* tutorial field populated (the tutorial's title stands for it).          *)
(***************************************************************************)
\* s += t, where evaluating t (or what came before) may have thrown
Then(s, t) ==
  IF s.k = "throw" THEN s ELSE IF t.k = "throw" THEN t ELSE Str(s.s \o t.s)

\* `${v}`: the string of a value; of an array, its elements joined by
\* commas (null and undefined elements are empty).
RECURSIVE Template(_), Joined(_, _)
Template(v) ==
  CASE v.k = "str" -> v.s
    [] v.k = "num" -> <<ToString(v.n)>>
    [] v.k = "bool" -> <<IF v.b THEN "true" ELSE "false">>
    [] v.k = "undef" -> <<"undefined">>
    [] v.k = "null" -> <<"null">>
    [] v.k = "arr" -> Joined(v.a, 1)
    [] OTHER -> <<"[object Object]">>
Joined(a, i) ==
  IF i > Len(a) THEN <<>>
  ELSE (IF i > 1 THEN <<",">> ELSE <<>>) \o
       (IF CanRead(a[i]) THEN Template(a[i]) ELSE <<>>) \o Joined(a, i + 1)

\* block.data?.name
Data(block, name) == Get(Get(block, "data"), name)

\* typeof item === 'string' ? item : item?.content || ''
ItemContent(item) ==
  IF TypeOf(item) = "string" THEN item ELSE Or(Get(item, "content"), EmptyStr)

\* block.data.items.forEach of case 'list', over items[i..]
RECURSIVE HtmlItems(_, _)
HtmlItems(items, i) ==
  IF i > Len(items) THEN <<>>
  ELSE <<"<li>">> \o Template(ItemContent(items[i])) \o <<"</li>">> \o HtmlItems(items, i + 1)

\* case 'list'
HtmlList(block, tag) ==
  Then(Str(<<"<" \o tag \o ">">>),
  Then(IF ~Truthy(Data(block, "items")) THEN EmptyStr
       ELSE IF ~IsArray(Data(block, "items")) THEN TypeError
       ELSE Str(HtmlItems(Data(block, "items").a, 1)),
       Str(<<"</" \o tag \o ">">>)))

\* The <figure> of an image block
Figure(block) ==
  Str(<<"<figure>", "<img src=\"">> \o Template(Data(block, "url")) \o <<"\" alt=\"">> \o
      Template(Or(Data(block, "alt"), EmptyStr)) \o <<"\" />">> \o
      (IF Truthy(Data(block, "caption"))
       THEN <<"<figcaption>">> \o Template(Data(block, "caption")) \o <<"</figcaption>">>
       ELSE <<>>) \o
      <<"</figure>">>)

\* The image case that tests the url alone.
HtmlImage_IgnoresInvalid(block) ==
  IF Truthy(Data(block, "url")) THEN Figure(block) ELSE EmptyStr

\* case 'image'
HtmlImage(block) ==
  IF Truthy(Data(block, "url")) /\ ~Truthy(Data(block, "invalid"))
  THEN Figure(block) ELSE EmptyStr

\* case 'video': case 'embed'
HtmlEmbed(block) ==
  IF Truthy(Data(block, "embed")) /\ ~Truthy(Data(block, "invalid"))
  THEN Str(<<"<div class=\"embed-container\">", "<iframe src=\"">> \o
           Template(Data(block, "embed")) \o
           <<"\" frameborder=\"0\" allowfullscreen></iframe>", "</div>">> \o
           (IF Truthy(Data(block, "caption"))
            THEN <<"<p><em>">> \o Template(Data(block, "caption")) \o <<"</em></p>">>
            ELSE <<>>))
  ELSE EmptyStr

\* row.forEach of case 'table', over the cells row[i..]
RECURSIVE HtmlCells(_, _, _)
HtmlCells(row, i, tag) ==
  IF i > Len(row) THEN <<>>
  ELSE <<"<" \o tag \o ">">> \o Template(row[i]) \o <<"</" \o tag \o ">">> \o
       HtmlCells(row, i + 1, tag)

\* block.data.content.forEach of case 'table', over the rows rows[index..]:
\* a row without forEach throws.
RECURSIVE HtmlRows(_, _, _)
HtmlRows(rows, index, withHeadings) ==
  IF index > Len(rows) THEN EmptyStr
  ELSE Then(IF ~IsArray(rows[index]) THEN TypeError
            ELSE Str(<<"<tr>">> \o
                     HtmlCells(rows[index].a, 1,
                               IF Truthy(withHeadings) /\ index = 1 THEN "th" ELSE "td") \o
                     <<"</tr>">>),
            HtmlRows(rows, index + 1, withHeadings))

\* case 'table'
HtmlTable(block) ==
  IF ~Truthy(Data(block, "content")) THEN EmptyStr
  ELSE IF ~IsArray(Data(block, "content")) THEN TypeError
  ELSE Then(Str(<<"<table>">>),
       Then(HtmlRows(Data(block, "content").a, 1, Data(block, "withHeadings")),
            Str(<<"</table>">>)))

\* What one pass of the forEach callback adds to html (lines 1082-1156).
HtmlBlock(block) ==
  IF ~Truthy(block) \/ ~Truthy(Get(block, "type")) THEN EmptyStr
  ELSE CASE Get(block, "type") = S("header") ->
              Str(<<"<h">> \o Template(Or(Data(block, "level"), Num(2))) \o <<">">> \o
                  Template(Or(Data(block, "text"), EmptyStr)) \o
                  <<"</h">> \o Template(Or(Data(block, "level"), Num(2))) \o <<">">>)
         [] Get(block, "type") = S("paragraph") ->
              Str(<<"<p>">> \o Template(Or(Data(block, "text"), EmptyStr)) \o <<"</p>">>)
         [] Get(block, "type") = S("list") ->
              HtmlList(block, IF Data(block, "style") = S("ordered") THEN "ol" ELSE "ul")
         [] Get(block, "type") = S("code") ->
              Str(<<"<pre><code class=\"language-">> \o
                  Template(Or(Data(block, "language"), S("javascript"))) \o <<"\">">> \o
                  Template(Or(Data(block, "code"), EmptyStr)) \o <<"</code></pre>">>)
         [] Get(block, "type") = S("quote") ->
              Str(<<"<blockquote><p>">> \o Template(Or(Data(block, "text"), EmptyStr)) \o
                  <<"</p>">> \o
                  (IF Truthy(Data(block, "caption"))
                   THEN <<"<cite>">> \o Template(Data(block, "caption")) \o <<"</cite>">>
                   ELSE <<>>) \o
                  <<"</blockquote>">>)
         [] Get(block, "type") = S("image") -> HtmlImage(block)
         [] Get(block, "type") \in {S("video"), S("embed")} -> HtmlEmbed(block)
         [] Get(block, "type") = S("delimiter") -> Str(<<"<hr>">>)
         [] Get(block, "type") = S("table") -> HtmlTable(block)
         [] OTHER -> EmptyStr

\* lesson.content.blocks.forEach, over blocks[i..]
RECURSIVE HtmlFrom(_, _)
HtmlFrom(blocks, i) ==
  IF i > Len(blocks) THEN EmptyStr
  ELSE Then(HtmlBlock(blocks[i]), HtmlFrom(blocks, i + 1))

\* The document up to <hr> (lines 1055-1079) and from </body> (lines 1158-1160)
HtmlHead(lesson) ==
  Str(<<"<!DOCTYPE html><html><head><title>">> \o lesson.title \o
      <<"</title><style>...</style></head><body><h1>">> \o lesson.title \o
      <<"</h1><p><strong>Duration:</strong> ", ToString(lesson.duration),
        " minutes</p><p><strong>Tutorial:</strong> ", lesson.tutorial, "</p><hr>">>)
HtmlFoot == Str(<<"</body></html>">>)

\* The forEach runs if lesson.content and lesson.content.blocks are there
\* (line 1081); blocks without forEach throw.
generateHTMLFromLesson(lesson) ==
  Then(HtmlHead(lesson),
  Then(IF ~Truthy(lesson.content) \/ ~Truthy(Get(lesson.content, "blocks")) THEN EmptyStr
       ELSE IF ~IsArray(Get(lesson.content, "blocks")) THEN TypeError
       ELSE HtmlFrom(Get(lesson.content, "blocks").a, 1),
       HtmlFoot))

\* tok.repeat(count): NaN counts as 0, a negative count throws.
Repeat(tok, count) ==
  IF ~IsNumeric(count) THEN EmptyStr
  ELSE IF ToNumber(count) < 0 THEN [k |-> "throw", e |-> "RangeError"]
  ELSE Str([i \in 1..ToNumber(count) |-> tok])

\* block.data.items.forEach of case 'list', over items[index..]
RECURSIVE TextItems(_, _, _)
TextItems(items, index, style) ==
  IF index > Len(items) THEN <<>>
  ELSE (IF style = S("ordered") THEN <<ToString(index), ". ">> ELSE <<"* ">>) \o
       Template(ItemContent(items[index])) \o <<"\n">> \o TextItems(items, index + 1, style)

\* What one pass of the forEach callback adds to text (lines 1173-1224);
\* "(fence)" stands for the three backquotes of a code fence.
TextBlock(block) ==
  IF ~Truthy(block) \/ ~Truthy(Get(block, "type")) THEN EmptyStr
  ELSE CASE Get(block, "type") = S("header") ->
              Then(Str(<<"\n">>),
              Then(Repeat("#", Or(Data(block, "level"), Num(2))),
                   Str(<<" ">> \o Template(Or(Data(block, "text"), EmptyStr)) \o <<"\n\n">>)))
         [] Get(block, "type") = S("paragraph") ->
              Str(Template(Or(Data(block, "text"), EmptyStr)) \o <<"\n\n">>)
         [] Get(block, "type") = S("list") ->
              Then(IF ~Truthy(Data(block, "items")) THEN EmptyStr
                   ELSE IF ~IsArray(Data(block, "items")) THEN TypeError
                   ELSE Str(TextItems(Data(block, "items").a, 1, Data(block, "style"))),
                   Str(<<"\n">>))
         [] Get(block, "type") = S("code") ->
              Str(<<"(fence)">> \o Template(Or(Data(block, "language"), EmptyStr)) \o <<"\n">> \o
                  Template(Or(Data(block, "code"), EmptyStr)) \o <<"\n", "(fence)", "\n\n">>)
         [] Get(block, "type") = S("quote") ->
              Str(<<"> ">> \o Template(Or(Data(block, "text"), EmptyStr)) \o <<"\n">> \o
                  (IF Truthy(Data(block, "caption"))
                   THEN <<"> - ">> \o Template(Data(block, "caption")) \o <<"\n">>
                   ELSE <<>>) \o
                  <<"\n">>)
         [] Get(block, "type") = S("image") ->
              IF Truthy(Data(block, "url")) /\ ~Truthy(Data(block, "invalid"))
              THEN Str(<<"[Image: ">> \o
                       Template(Or(Data(block, "alt"), Or(Data(block, "caption"), S("Image")))) \o
                       <<"]\n", "URL: ">> \o Template(Data(block, "url")) \o <<"\n\n">>)
              ELSE EmptyStr
         [] Get(block, "type") \in {S("video"), S("embed")} ->
              IF Truthy(Data(block, "url")) /\ ~Truthy(Data(block, "invalid"))
              THEN Str(<<"[">> \o Template(Or(Data(block, "service"), S("Video"))) \o <<": ">> \o
                       Template(Or(Data(block, "caption"), S("Embedded content"))) \o
                       <<"]\n", "URL: ">> \o Template(Data(block, "url")) \o <<"\n\n">>)
              ELSE EmptyStr
         [] Get(block, "type") = S("delimiter") -> Str(<<"\n---\n\n">>)
         [] OTHER -> EmptyStr

\* lesson.content.blocks.forEach, over blocks[i..]
RECURSIVE TextFrom(_, _)
TextFrom(blocks, i) ==
  IF i > Len(blocks) THEN EmptyStr
  ELSE Then(TextBlock(blocks[i]), TextFrom(blocks, i + 1))

\* The title, its underline, the duration and the tutorial (lines 1167-1170)
TextHead(lesson) ==
  Then(Str(lesson.title \o <<"\n">>),
  Then(Repeat("=", Num(TitleLength(lesson.title))),
       Str(<<"\n\n", "Duration: ", ToString(lesson.duration), " minutes\n",
             "Tutorial: ", lesson.tutorial, "\n\n">>)))

generateTextFromLesson(lesson) ==
  Then(TextHead(lesson),
       IF ~Truthy(lesson.content) \/ ~Truthy(Get(lesson.content, "blocks")) THEN EmptyStr
       ELSE IF ~IsArray(Get(lesson.content, "blocks")) THEN TypeError
       ELSE TextFrom(Get(lesson.content, "blocks").a, 1))

(***************************************************************************)
(* Requests.  An order in a request body is a JSON number; the model       *)
(* writes it in halves (3 is 1.5), so that parseInt rounds.                *)
(***************************************************************************)
NoResp == [status |-> 0, message |-> "", error |-> ""]
Idle == [op |-> "none", pc |-> "idle", a |-> <<>>, loc |-> <<>>,
         resp |-> NoResp, before |-> <<>>]

\* parseInt(order) and the order as a stored Number would compare to it
ParseInt(halves) == halves \div 2
Halves(order) == 2 * order

\* res.status(status).json({message, error}) ends the handler.
Answer(r, status, message, error) ==
  req' = [req EXCEPT ![r].pc = "done",
                     ![r].resp = [status |-> status, message |-> message, error |-> error]]

\* A request arrives in the free slot r.
Arrives(r) ==
  /\ req[r].pc = "idle"
  /\ started < MaxRequests
  /\ started' = started + 1

\* The request record of a handler that has just started and goes on.
Started(op, a, pc, loc) ==
  [op |-> op, pc |-> pc, a |-> a, loc |-> loc, resp |-> NoResp, before |-> lessons]
\* ... or has answered at once.
Answered(op, a, status, message) ==
  [op |-> op, pc |-> "done", a |-> a, loc |-> <<>>,
   resp |-> [status |-> status, message |-> message, error |-> ""],
   before |-> lessons]

\* checkDuplicateOrder with a query that matches no lesson.
checkDuplicateOrder_NoMatch(store, tutorialId, order, excludeLessonId) == {}

\* checkDuplicateOrder whose query leaves out `_id: {$ne: excludeLessonId}`.
checkDuplicateOrder_NoExclude(store, tutorialId, order, excludeLessonId) ==
  {id \in DOMAIN store :
     store[id].tutorial = tutorialId /\ Halves(store[id].order) = order}

\* Lesson.findOne({tutorial, order, _id: {$ne: excludeLessonId}}): the
\* lessons the query matches (0 stands for no excludeLessonId).
checkDuplicateOrder(store, tutorialId, order, excludeLessonId) ==
  {id \in DOMAIN store \ {excludeLessonId} :
     store[id].tutorial = tutorialId /\ Halves(store[id].order) = order}

DuplicateOrderMessage == "A lesson with order N already exists in this tutorial. Please choose a different order."
DuplicateKeyMessage == "A lesson with this order already exists in the tutorial"

\* The random stream the service's sanitizer calls draw from.
RandomStream == "k7"

\* Requests that will still insert a lesson.
Inserting ==
  {r \in Reqs : req[r].pc \in {"create_check", "create_insert", "dup_last", "dup_insert"}}

(***************************************************************************)
(* createLesson                                                            *)
(***************************************************************************)
\* Lines 404-441: the field checks, Tutorial.findById, sanitizeContent.
\* (No lesson handler writes the tutorials, so the lookup is taken with the
\* arrival.)
CreateStart(r, a) ==
  /\ Arrives(r)
  /\ nextId + Cardinality(Inserting) <= MaxLessons
  /\ LET sanitizedContent == sanitizeContent(a.content, Now', RandomStream) IN
     req' = [req EXCEPT ![r] =
       IF Trim(a.title) = <<>>
       THEN Answered("create", a, 400, "Lesson title is required")
       ELSE IF a.order < Halves(1)
       THEN Answered("create", a, 400, "Order must be a positive number")
       ELSE IF a.duration < 1
       THEN Answered("create", a, 400, "Duration must be a positive number")
       ELSE IF a.tutorialId \notin Tutorials
       THEN Answered("create", a, 404, "Tutorial not found")
       ELSE IF sanitizedContent = TypeError
       THEN Answered("create", a, 500, "Server error")
       ELSE Started("create", a, "create_check", [content |-> sanitizedContent])]
  /\ UNCHANGED <<lessons, nextId, sanVars>>

\* Lines 443-465: checkDuplicateOrder, then lessonData.
CreateCheck(r) ==
  /\ req[r].pc = "create_check"
  /\ LET a == req[r].a IN
     IF checkDuplicateOrder(lessons, a.tutorialId, a.order, 0) # {}
     THEN Answer(r, 400, DuplicateOrderMessage, "")
     ELSE req' = [req EXCEPT ![r].pc = "create_insert",
                             ![r].loc =
       [lessonData |->
          [tutorial |-> a.tutorialId, order |-> ParseInt(a.order),
           title |-> Trim(a.title), slug |-> <<>>,
           content |-> req[r].loc.content, duration |-> a.duration,
           isPublished |-> a.isPublished,
           publishedAt |-> IF a.isPublished THEN Now ELSE NoDate]]]
  /\ UNCHANGED <<lessons, nextId, started, sanVars>>

\* How createLesson and updateLesson answer an error of the write
\* (lines 477-504 and 717-745).
AnswerWriteError(r, outcome) ==
  CASE outcome = "ValidationError" -> Answer(r, 400, "Validation failed", outcome)
    [] outcome = "E11000_tutorial_order" -> Answer(r, 400, DuplicateKeyMessage, outcome)
    [] OTHER -> Answer(r, 500, "Server error", outcome)

\* Line 467: Lesson.create(lessonData).
CreateInsert(r) ==
  /\ req[r].pc = "create_insert"
  /\ LET doc == PreSave(req[r].loc.lessonData, {"title", "isPublished"}, Now) IN
     \E outcome \in WriteOutcomes(lessons, doc, doc, 0) :
       IF outcome = "ok"
       THEN /\ lessons' = (nextId :> doc) @@ lessons
            /\ nextId' = nextId + 1
            /\ req' = [req EXCEPT ![r].pc = "create_populate", ![r].loc = <<>>]
       ELSE /\ AnswerWriteError(r, outcome)
            /\ UNCHANGED <<lessons, nextId>>
  /\ UNCHANGED <<started, sanVars>>

\* Lines 470-476: lesson.populate, then the 201 response.
CreatePopulate(r) ==
  /\ req[r].pc = "create_populate"
  /\ Answer(r, 201, "Lesson created successfully", "")
  /\ UNCHANGED <<lessons, nextId, started, sanVars>>

(***************************************************************************)
(* updateLesson                                                            *)
(***************************************************************************)
\* Lines 693-705: the body's fields assigned to the loaded lesson.
Assigned(lesson, a, now) ==
  LET publishes == "isPublished" \in a.has /\ a.isPublished # lesson.isPublished IN
  [lesson EXCEPT
     !.title = IF "title" \in a.has THEN Trim(a.title) ELSE @,
     !.order = IF "order" \in a.has THEN ParseInt(a.order) ELSE @,
     !.duration = IF "duration" \in a.has THEN a.duration ELSE @,
     !.isPublished = IF publishes THEN a.isPublished ELSE @,
     !.publishedAt = IF ~publishes THEN @ ELSE IF a.isPublished THEN now ELSE NoDate]

\* The paths of a loaded document that have been given another value.
Modified(doc, loaded) == {path \in DOMAIN doc : doc[path] # loaded[path]}

\* Saved with the blocks of a modified content appended to the stored ones.
Saved_AppendsBlocks(store, id, lesson, loaded, now) ==
  [path \in DOMAIN lesson |->
     IF path = "content" /\ lesson.content # loaded.content
     THEN Document(Get(lesson.content, "time"),
                   Get(store[id].content, "blocks").a \o Get(lesson.content, "blocks").a,
                   Get(lesson.content, "version"))
     ELSE IF PreSave(lesson, Modified(lesson, loaded), now)[path] # loaded[path]
     THEN PreSave(lesson, Modified(lesson, loaded), now)[path]
     ELSE store[id][path]]

\* lesson.save(): the pre-save hook, the validators, then an update of the
\* stored document in the modified paths.  The outcome and the document
\* that is stored if the outcome is "ok".
Saved(store, id, lesson, loaded, now) ==
  LET doc == PreSave(lesson, Modified(lesson, loaded), now) IN
  [path \in DOMAIN doc |->
     IF doc[path] # loaded[path] THEN doc[path] ELSE store[id][path]]
SaveOutcomes(store, id, lesson, loaded, now) ==
  IF SchemaErrors(PreSave(lesson, Modified(lesson, loaded), now)) # {}
  THEN {"ValidationError"}
  ELSE IF id \notin DOMAIN store THEN {"DocumentNotFoundError"}
  ELSE WriteOutcomes(store, PreSave(lesson, Modified(lesson, loaded), now),
                     Saved(store, id, lesson, loaded, now), id)

\* The body's order is a JSON string ("2"), not a number.
OrderIsString(a) == "quoted" \in DOMAIN a

\* Lines 644-690 up to the next awaited call: findById, the field checks,
\* the content, and either the duplicate check or the assignments.
UpdateStart(r, a) ==
  /\ Arrives(r)
  /\ LET sanitizedContent == sanitizeContent(a.content, Now', RandomStream) IN
     req' = [req EXCEPT ![r] =
       IF a.id \notin DOMAIN lessons
       THEN Answered("update", a, 404, "Lesson not found")
       ELSE IF "title" \in a.has /\ Trim(a.title) = <<>>
       THEN Answered("update", a, 400, "Lesson title cannot be empty")
       ELSE IF "order" \in a.has /\ a.order < Halves(1)
       THEN Answered("update", a, 400, "Order must be a positive number")
       ELSE IF "duration" \in a.has /\ a.duration < 1
       THEN Answered("update", a, 400, "Duration must be a positive number")
       ELSE IF "content" \in a.has /\ sanitizedContent = TypeError
       THEN Answered("update", a, 500, "Server error")
       ELSE
         LET loaded == lessons[a.id]
             lesson == IF "content" \in a.has
                       THEN [loaded EXCEPT !.content = sanitizedContent]
                       ELSE loaded
         IN IF "order" \in a.has /\ (OrderIsString(a) \/ a.order # Halves(loaded.order))
            THEN Started("update", a, "update_check", [lesson |-> lesson, loaded |-> loaded])
            ELSE Started("update", a, "update_save",
                         [lesson |-> Assigned(lesson, a, Now'), loaded |-> loaded])]
  /\ UNCHANGED <<lessons, nextId, sanVars>>

\* Lines 682-705: checkDuplicateOrder, then the assignments.
UpdateCheck(r) ==
  /\ req[r].pc = "update_check"
  /\ LET a == req[r].a
         lesson == req[r].loc.lesson IN
     IF checkDuplicateOrder(lessons, lesson.tutorial, a.order, a.id) # {}
     THEN Answer(r, 400, DuplicateOrderMessage, "")
     ELSE req' = [req EXCEPT ![r].pc = "update_save",
                             ![r].loc.lesson = Assigned(lesson, a, Now)]
  /\ UNCHANGED <<lessons, nextId, started, sanVars>>

\* Line 707: lesson.save().
UpdateSave(r) ==
  /\ req[r].pc = "update_save"
  /\ LET id == req[r].a.id
         loc == req[r].loc IN
     \E outcome \in SaveOutcomes(lessons, id, loc.lesson, loc.loaded, Now) :
       IF outcome = "ok"
       THEN /\ lessons' = [lessons EXCEPT ![id] = Saved(lessons, id, loc.lesson, loc.loaded, Now)]
            /\ req' = [req EXCEPT ![r].pc = "update_populate", ![r].loc = <<>>]
       ELSE /\ AnswerWriteError(r, outcome)
            /\ UNCHANGED lessons
  /\ UNCHANGED <<nextId, started, sanVars>>

\* Lines 710-716: updatedLesson.populate, then the response.
UpdatePopulate(r) ==
  /\ req[r].pc = "update_populate"
  /\ Answer(r, 200, "Lesson updated successfully", "")
  /\ UNCHANGED <<lessons, nextId, started, sanVars>>

(***************************************************************************)
(* deleteLesson                                                            *)
(***************************************************************************)
\* Lines 755-768: findById.
DeleteStart(r, a) ==
  /\ Arrives(r)
  /\ req' = [req EXCEPT ![r] =
       IF a.id \notin DOMAIN lessons
       THEN Answered("delete", a, 404, "Lesson not found")
       ELSE Started("delete", a, "delete_one", <<>>)]
  /\ UNCHANGED <<lessons, nextId, sanVars>>

\* Lines 770-776: Lesson.deleteOne({_id: id}), then the response.
DeleteOne(r) ==
  /\ req[r].pc = "delete_one"
  /\ lessons' = [id \in DOMAIN lessons \ {req[r].a.id} |-> lessons[id]]
  /\ Answer(r, 200, "Lesson removed successfully", "")
  /\ UNCHANGED <<nextId, started, sanVars>>

(***************************************************************************)
(* updateLessonContent                                                     *)
(***************************************************************************)
\* Lines 795-806: findById, sanitizeContent, lesson.content.
ContentStart(r, a) ==
  /\ Arrives(r)
  /\ LET sanitizedContent == sanitizeContent(a.content, Now', RandomStream) IN
     req' = [req EXCEPT ![r] =
       IF a.id \notin DOMAIN lessons
       THEN Answered("content", a, 404, "Lesson not found")
       ELSE IF sanitizedContent = TypeError
       THEN Answered("content", a, 500, "Server error")
       ELSE Started("content", a, "content_save",
                    [lesson |-> [lessons[a.id] EXCEPT !.content = sanitizedContent],
                     loaded |-> lessons[a.id]])]
  /\ UNCHANGED <<lessons, nextId, sanVars>>

\* Lines 807-821: lesson.save(); every error is answered with 500.
ContentSave(r) ==
  /\ req[r].pc = "content_save"
  /\ LET id == req[r].a.id
         loc == req[r].loc IN
     \E outcome \in SaveOutcomes(lessons, id, loc.lesson, loc.loaded, Now) :
       IF outcome = "ok"
       THEN /\ lessons' = [lessons EXCEPT ![id] = Saved(lessons, id, loc.lesson, loc.loaded, Now)]
            /\ Answer(r, 200, "Lesson content updated successfully", "")
       ELSE /\ Answer(r, 500, "Server error", outcome)
            /\ UNCHANGED lessons
  /\ UNCHANGED <<nextId, started, sanVars>>

(***************************************************************************)
(* togglePublishStatus                                                     *)
(***************************************************************************)
\* Lines 952-966: findById, isPublished and publishedAt assigned.
ToggleStart(r, a) ==
  /\ Arrives(r)
  /\ req' = [req EXCEPT ![r] =
       IF a.id \notin DOMAIN lessons
       THEN Answered("toggle", a, 404, "Lesson not found")
       ELSE Started("toggle", a, "toggle_save",
                    [lesson |-> [lessons[a.id] EXCEPT
                                   !.isPublished = a.isPublished,
                                   !.publishedAt = IF a.isPublished THEN Now' ELSE NoDate],
                     loaded |-> lessons[a.id]])]
  /\ UNCHANGED <<lessons, nextId, sanVars>>

\* Lines 968-982: lesson.save(); every error is answered with 500.
ToggleSave(r) ==
  /\ req[r].pc = "toggle_save"
  /\ LET id == req[r].a.id
         loc == req[r].loc IN
     \E outcome \in SaveOutcomes(lessons, id, loc.lesson, loc.loaded, Now) :
       IF outcome = "ok"
       THEN /\ lessons' = [lessons EXCEPT ![id] = Saved(lessons, id, loc.lesson, loc.loaded, Now)]
            /\ Answer(r, 200, "Lesson published or unpublished successfully", "")
       ELSE /\ Answer(r, 500, "Server error", outcome)
            /\ UNCHANGED lessons
  /\ UNCHANGED <<nextId, started, sanVars>>

(***************************************************************************)
(* duplicateLesson                                                         *)
(***************************************************************************)
\* Lines 831-838: findById of the original.
DuplicateStart(r, a) ==
  /\ Arrives(r)
  /\ nextId + Cardinality(Inserting) <= MaxLessons
  /\ req' = [req EXCEPT ![r] =
       IF a.id \notin DOMAIN lessons
       THEN Answered("duplicate", a, 404, "Lesson not found")
       ELSE Started("duplicate", a, "dup_last", [originalLesson |-> lessons[a.id]])]
  /\ UNCHANGED <<lessons, nextId, sanVars>>

\* Lesson.findOne({tutorial}).sort({order: -1}): the order after the last.
NextOrder(store, tutorialId) ==
  LET orders == {store[id].order : id \in {x \in DOMAIN store : store[x].tutorial = tutorialId}}
  IN IF orders = {} THEN 1
     ELSE (CHOOSE o \in orders : \A other \in orders : other <= o) + 1

\* Lines 841-857: the last lesson of the tutorial, then duplicateData.
DuplicateLast(r) ==
  /\ req[r].pc = "dup_last"
  /\ LET originalLesson == req[r].loc.originalLesson
         cleanContent == sanitizeContent(originalLesson.content, Now, RandomStream) IN
     IF cleanContent = TypeError
     THEN Answer(r, 500, "Server error", "TypeError")
     ELSE req' = [req EXCEPT ![r].pc = "dup_insert",
                             ![r].loc =
       [duplicateData |->
          [tutorial |-> originalLesson.tutorial,
           order |-> NextOrder(lessons, originalLesson.tutorial),
           title |-> originalLesson.title \o <<" (Copy)">>, slug |-> <<>>,
           content |-> cleanContent, duration |-> originalLesson.duration,
           isPublished |-> FALSE, publishedAt |-> NoDate]]]
  /\ UNCHANGED <<lessons, nextId, started, sanVars>>

\* Line 859: Lesson.create(duplicateData); every error is answered with 500.
DuplicateInsert(r) ==
  /\ req[r].pc = "dup_insert"
  /\ LET doc == PreSave(req[r].loc.duplicateData, {"title", "isPublished"}, Now) IN
     \E outcome \in WriteOutcomes(lessons, doc, doc, 0) :
       IF outcome = "ok"
       THEN /\ lessons' = (nextId :> doc) @@ lessons
            /\ nextId' = nextId + 1
            /\ req' = [req EXCEPT ![r].pc = "dup_populate", ![r].loc = <<>>]
       ELSE /\ Answer(r, 500, "Server error", outcome)
            /\ UNCHANGED <<lessons, nextId>>
  /\ UNCHANGED <<started, sanVars>>

\* Lines 860-866: duplicatedLesson.populate, then the 201 response.
DuplicatePopulate(r) ==
  /\ req[r].pc = "dup_populate"
  /\ Answer(r, 201, "Lesson duplicated successfully", "")
  /\ UNCHANGED <<lessons, nextId, started, sanVars>>

(***************************************************************************)
(* reorderLessons.  The updates of the batch are all issued before the     *)
(* handler awaits them; loc.pending holds the positions of those that have *)
(* not taken effect yet.  Promise.all rejects with the first update that   *)
(* fails, and the others still take effect after the response.             *)
(***************************************************************************)
\* Lines 1238-1261: the array check, Tutorial.findById, the updates issued.
ReorderStart(r, a) ==
  /\ Arrives(r)
  /\ req' = [req EXCEPT ![r] =
       IF ~IsArray(a.lessonOrders)
       THEN Answered("reorder", a, 400, "Lesson orders must be an array")
       ELSE IF a.tutorialId \notin Tutorials
       THEN Answered("reorder", a, 404, "Tutorial not found")
       ELSE Started("reorder", a, "reorder_updates",
                    [pending |-> 1..Len(a.lessonOrders.a)])]
  /\ UNCHANGED <<lessons, nextId, sanVars>>

\* OrderUpdated with the filter {_id: lessonId} alone.
OrderUpdated_AnyTutorial(store, tutorialId, entry) ==
  IF entry.lessonId \in DOMAIN store
  THEN [store EXCEPT ![entry.lessonId].order = ParseInt(entry.order)]
  ELSE store

\* Lesson.findOneAndUpdate({_id, tutorial}, {order: parseInt(order)}): the
\* update validators do not run; the unique index does.
OrderUpdated(store, tutorialId, entry) ==
  IF entry.lessonId \in DOMAIN store /\ store[entry.lessonId].tutorial = tutorialId
  THEN [store EXCEPT ![entry.lessonId].order = ParseInt(entry.order)]
  ELSE store
UpdateRejected(store, tutorialId, entry) ==
  /\ entry.lessonId \in DOMAIN store
  /\ store[entry.lessonId].tutorial = tutorialId
  /\ "tutorial_order" \in
       IndexViolations(store, OrderUpdated(store, tutorialId, entry)[entry.lessonId],
                       entry.lessonId)

\* One update of the batch takes effect or is rejected (lines 1255-1263);
\* the first rejection is answered with 500 (lines 1275-1281).
ReorderUpdate(r, i) ==
  /\ req[r].op = "reorder"
  /\ req[r].pc \in {"reorder_updates", "done"}
  /\ DOMAIN req[r].loc = {"pending"}
  /\ i \in req[r].loc.pending
  /\ LET a == req[r].a
         entry == a.lessonOrders.a[i]
         rest == [pending |-> req[r].loc.pending \ {i}] IN
     IF UpdateRejected(lessons, a.tutorialId, entry)
     THEN /\ UNCHANGED lessons
          /\ req' = [req EXCEPT
               ![r].loc = rest,
               ![r].pc = "done",
               ![r].resp = IF req[r].pc = "done" THEN @
                           ELSE [status |-> 500, message |-> "Server error",
                                 error |-> "E11000_tutorial_order"]]
     ELSE /\ lessons' = OrderUpdated(lessons, a.tutorialId, entry)
          /\ req' = [req EXCEPT ![r].loc = rest]
  /\ UNCHANGED <<nextId, started, sanVars>>

\* Lines 1265-1274: all updates fulfilled; Lesson.find, then the response.
ReorderFind(r) ==
  /\ req[r].pc = "reorder_updates"
  /\ req[r].loc.pending = {}
  /\ Answer(r, 200, "Lessons reordered successfully", "")
  /\ UNCHANGED <<lessons, nextId, started, sanVars>>

(***************************************************************************)
(* The reads: getLessonsByTutorial, getLessonById, getAllLessons.  The     *)
(* caller is an admin or not (a.admin: req.user.role === 'admin'); the     *)
(* lessons of the response are loc.data.  Tutorials are written by the     *)
(* tutorial controller alone, which creates them unpublished: the second   *)
(* tutorial still is.                                                      *)
(***************************************************************************)
UnpublishedTutorials == {"T2"}

\* lesson.toObject() with its content cleaned, as the reads return it.
Cleaned(lesson, now) ==
  [lesson EXCEPT !.content = sanitizeContent(lesson.content, now, RandomStream)]

\* .sort({order: 1}) of the lessons ids of store (the _id breaks a tie)
RECURSIVE ByOrder(_, _)
ByOrder(store, ids) ==
  IF ids = {} THEN <<>>
  ELSE LET first == CHOOSE id \in ids : \A other \in ids :
                      \/ store[id].order < store[other].order
                      \/ store[id].order = store[other].order /\ id <= other
       IN <<first>> \o ByOrder(store, ids \ {first})

\* .sort({createdAt: -1}): the lesson created last comes first
RECURSIVE NewestFirst(_)
NewestFirst(ids) ==
  IF ids = {} THEN <<>> ELSE <<Max(ids)>> \o NewestFirst(ids \ {Max(ids)})

\* The response of a read: 200 with the lessons listed.
Retrieved(r, message, store, listed, now) ==
  req' = [req EXCEPT
    ![r].pc = "done",
    ![r].resp = [status |-> 200, message |-> message, error |-> ""],
    ![r].loc = [data |-> [i \in 1..Len(listed) |-> Cleaned(store[listed[i]], now)]]]

\* getLessonsByTutorial, lines 513-531: Tutorial.findById and the test of
\* the tutorial's isPublished.
ListStart(r, a) ==
  /\ Arrives(r)
  /\ req' = [req EXCEPT ![r] =
       IF a.tutorialId \notin Tutorials
       THEN Answered("list", a, 404, "Tutorial not found")
       ELSE IF a.tutorialId \in UnpublishedTutorials /\ ~a.admin
       THEN Answered("list", a, 404, "Tutorial not found")
       ELSE Started("list", a, "list_find", <<>>)]
  /\ UNCHANGED <<lessons, nextId, sanVars>>

\* Lines 533-559: the query, Lesson.find sorted by order, the cleaning.
ListFind(r) ==
  /\ req[r].pc = "list_find"
  /\ Retrieved(r, "Lessons retrieved successfully", lessons,
               ByOrder(lessons, {id \in DOMAIN lessons :
                                  /\ lessons[id].tutorial = req[r].a.tutorialId
                                  /\ ~req[r].a.admin => lessons[id].isPublished}),
               Now)
  /\ UNCHANGED <<lessons, nextId, started, sanVars>>

\* getLessonById, lines 580-596: Lesson.findById.
GetStart(r, a) ==
  /\ Arrives(r)
  /\ req' = [req EXCEPT ![r] =
       IF a.id \notin DOMAIN lessons
       THEN Answered("get", a, 404, "Lesson not found")
       ELSE Started("get", a, "get_populate", [lesson |-> lessons[a.id]])]
  /\ UNCHANGED <<lessons, nextId, sanVars>>

\* Lines 598-626: lesson.populate('tutorial'), the tests of the lesson's
\* and the tutorial's isPublished, the cleaning.
GetPopulate(r) ==
  /\ req[r].pc = "get_populate"
  /\ LET lesson == req[r].loc.lesson IN
     IF ~lesson.isPublished /\ ~req[r].a.admin
     THEN Answer(r, 404, "Lesson not found", "")
     ELSE IF lesson.tutorial \in UnpublishedTutorials /\ ~req[r].a.admin
     THEN Answer(r, 404, "Lesson not found", "")
     ELSE req' = [req EXCEPT
            ![r].pc = "done",
            ![r].resp = [status |-> 200, message |-> "Lesson retrieved successfully",
                         error |-> ""],
            ![r].loc = [data |-> <<Cleaned(lesson, Now)>>]]
  /\ UNCHANGED <<lessons, nextId, started, sanVars>>

\* The query of getAllLessons (lines 884-899) matches the lesson: a caller
\* who is no admin gets isPublished: true, an admin the value of the
\* published parameter when there is one; tutorial when it is given.
AllMatches(a, lesson) ==
  /\ IF ~a.admin THEN lesson.isPublished
     ELSE a.published # Undef => lesson.isPublished = (a.published = S("true"))
  /\ a.tutorial # "" => lesson.tutorial = a.tutorial

\* getAllLessons, lines 880-902: the query is built, Lesson.countDocuments.
AllStart(r, a) ==
  /\ Arrives(r)
  /\ req' = [req EXCEPT ![r] =
       Started("all", a, "all_find",
               [total |-> Cardinality({id \in DOMAIN lessons : AllMatches(a, lessons[id])})])]
  /\ UNCHANGED <<lessons, nextId, sanVars>>

\* Lines 904-931: Lesson.find, newest first (the first page holds every
\* lesson of the model), the cleaning.
AllFind(r) ==
  /\ req[r].pc = "all_find"
  /\ Retrieved(r, "Lessons retrieved successfully", lessons,
               NewestFirst({id \in DOMAIN lessons : AllMatches(req[r].a, lessons[id])}),
               Now)
  /\ UNCHANGED <<lessons, nextId, started, sanVars>>

(***************************************************************************)
(* Failures of the store and the end of a request.                         *)
(***************************************************************************)
\* The awaited call a handler stands at rejects (the connection to the
\* store is lost): every handler's catch answers 500.
StorageFailure(r) ==
  /\ req[r].pc \notin {"idle", "done"}
  /\ req[r].pc = "reorder_updates" => req[r].loc.pending = {}
  /\ Answer(r, 500, "Server error", "storage")
  /\ UNCHANGED <<lessons, nextId, started, sanVars>>

\* Whether every update a reorder request issued has taken effect.
Settled(r) == DOMAIN req[r].loc = {"pending"} => req[r].loc.pending = {}

\* The response has been sent and nothing of the request is left running.
Retire(r) ==
  /\ req[r].pc = "done"
  /\ Settled(r)
  /\ req' = [req EXCEPT ![r] = Idle]
  /\ UNCHANGED <<lessons, nextId, started, sanVars>>

(***************************************************************************)
(* Request parameters and bodies.                                          *)
(***************************************************************************)
Paragraph == Obj([id |-> S("b1"), type |-> S("paragraph"), data |-> Obj([text |-> S("hi")])])
Custom == Obj([id |-> S("b2"), type |-> S("custom"), data |-> Obj([text |-> S("hi")])])
OneParagraph == Obj([time |-> Num(5), blocks |-> Arr(<<Paragraph>>), version |-> S("2.0")])
OneCustom == Obj([time |-> Num(5), blocks |-> Arr(<<Custom>>), version |-> S("2.0")])
OneHeader ==
  Obj([time |-> Num(6),
       blocks |-> Arr(<<Obj([id |-> S("b4"), type |-> S("header"),
                             data |-> Obj([text |-> S("h"), level |-> Num(3)])])>>),
       version |-> S("2.0")])

CreateBody(tutorialId, title, order, duration, isPublished, content) ==
  [tutorialId |-> tutorialId, title |-> title, order |-> order, duration |-> duration,
   isPublished |-> isPublished, content |-> content]
CreateBodies ==
  {CreateBody("T1", title, order, 15, isPublished, Null) :
     title \in {<<"Intro">>, <<"Basics">>},
     order \in {Halves(1), Halves(MaxOrder)},
     isPublished \in BOOLEAN} \cup
  {CreateBody("T1", <<" ">>, Halves(MaxOrder), 15, FALSE, Null),
   CreateBody("T1", <<"Basics">>, 1, 15, FALSE, Null),
   CreateBody("T1", <<"Basics">>, Halves(1) + 1, 15, FALSE, Null),
   CreateBody("T1", <<"Basics">>, Halves(MaxOrder), 0, FALSE, Null),
   CreateBody("T1", <<"Basics">>, Halves(MaxOrder), 15, FALSE, OneCustom),
   CreateBody("T2", <<"Basics">>, Halves(1), 15, TRUE, OneParagraph),
   CreateBody("T9", <<"Basics">>, Halves(1), 15, FALSE, Null)}

UpdateBody(id, has, title, order, duration, isPublished, content) ==
  [id |-> id, has |-> has, title |-> title, order |-> order, duration |-> duration,
   isPublished |-> isPublished, content |-> content]
UpdateBodies ==
  {UpdateBody(1, {"order"}, <<>>, order, 0, FALSE, Null) :
     order \in {1, Halves(1), Halves(2), Halves(2) + 1, Halves(MaxOrder)}} \cup
  {UpdateBody(2, {"title"}, title, 0, 0, FALSE, Null) :
     title \in {<<"Intro">>, <<"Basics">>, <<" ">>}} \cup
  {UpdateBody(2, {"isPublished"}, <<>>, 0, 0, isPublished, Null) : isPublished \in BOOLEAN} \cup
  {UpdateBody(2, {"duration"}, <<>>, 0, duration, FALSE, Null) : duration \in {0, 301}} \cup
  {UpdateBody(3, {"content", "order"}, <<>>, Halves(MaxOrder), 0, FALSE, content) :
     content \in {OneParagraph, OneCustom}} \cup
  {UpdateBody(9, {}, <<>>, 0, 0, FALSE, Null),
   [quoted |-> TRUE] @@ UpdateBody(1, {"order"}, <<>>, Halves(1), 0, FALSE, Null)}

LessonParams == {[id |-> id] : id \in {1, 4, 9}}
ContentBodies ==
  {[id |-> id, content |-> content] : id \in {1, 9}, content \in {OneParagraph, OneCustom}} \cup
  {[id |-> 1, content |-> OneHeader]}
ToggleBodies == {[id |-> id, isPublished |-> isPublished] : id \in {1, 9}, isPublished \in BOOLEAN}

\* The reads: a caller who is no admin, and an admin.
ListBodies ==
  {[tutorialId |-> "T1", admin |-> FALSE], [tutorialId |-> "T2", admin |-> FALSE],
   [tutorialId |-> "T2", admin |-> TRUE], [tutorialId |-> "T9", admin |-> FALSE]}
GetBodies ==
  {[id |-> 1, admin |-> FALSE], [id |-> 4, admin |-> FALSE],
   [id |-> 4, admin |-> TRUE], [id |-> 9, admin |-> FALSE]}
AllBodies ==
  {[admin |-> FALSE, published |-> Undef, tutorial |-> ""],
   [admin |-> FALSE, published |-> S("false"), tutorial |-> "T2"],
   [admin |-> TRUE, published |-> S("false"), tutorial |-> ""],
   [admin |-> TRUE, published |-> Undef, tutorial |-> "T1"]}

Entry(lessonId, order) == [lessonId |-> lessonId, order |-> order]
ReorderBodies ==
  {[tutorialId |-> "T1", lessonOrders |-> Arr(batch)] :
     batch \in SeqsUpTo({Entry(3, Halves(1)), Entry(1, Halves(3)), Entry(1, Halves(MaxOrder)),
                         Entry(2, Halves(3)), Entry(2, 1)}, MaxBatch)} \cup
  {[tutorialId |-> "T1", lessonOrders |-> Null],
   [tutorialId |-> "T9", lessonOrders |-> Arr(<<>>)],
   [tutorialId |-> "T2", lessonOrders |-> Arr(<<Entry(1, Halves(MaxOrder))>>)]}

(***************************************************************************)
(* The exports of a stored content (exportLesson, formats html and text).  *)
(***************************************************************************)
\* Blocks of every kind the exports tell apart.
RenderBlocks ==
  {Paragraph, Custom,
   Obj([type |-> S("header"), data |-> Obj([text |-> S("h"), level |-> Num(3)])]),
   Obj([type |-> S("header"), data |-> Obj([text |-> S("h"), level |-> S("abc")])]),
   Obj([type |-> S("list"),
        data |-> Obj([style |-> S("ordered"),
                      items |-> Arr(<<S("a"), Obj([content |-> S("b")]), Num(5), Null>>)])]),
   Obj([type |-> S("image"), data |-> Obj([url |-> ImgurPng, caption |-> S("cap")])]),
   Obj([type |-> S("image"), data |-> Obj([url |-> PlainPage])]),
   Obj([type |-> S("embed"), data |-> Obj([url |-> YouTubeWatch])]),
   Obj([type |-> S("embed"), data |-> Obj([url |-> PlainPage, embed |-> PlainPage])]),
   Obj([type |-> S("video"), data |-> Obj([source |-> VimeoVideo, caption |-> S("cap")])]),
   Obj([type |-> S("code"), data |-> Obj([code |-> S("x = 1"), language |-> S("python")])]),
   Obj([type |-> S("quote"), data |-> Obj([text |-> S("q"), caption |-> S("cap")])]),
   Obj([type |-> S("delimiter"), data |-> EmptyObj]),
   Obj([type |-> S("table"),
        data |-> Obj([content |-> Arr(<<Arr(<<S("a"), Num(1)>>), Arr(<<S("b")>>)>>),
                      withHeadings |-> Bool(TRUE)])]),
   Obj([type |-> S("table"), data |-> Obj([content |-> Arr(<<S("row")>>)])])}

\* The stored contents that are exported.
RenderContents ==
  {Obj([time |-> Num(5), blocks |-> Arr(blocks), version |-> S("2.0")]) :
     blocks \in SeqsUpTo(RenderBlocks, MaxRendered)}

\* { ...lesson.toObject(), content: cleanContent }, of the first seeded
\* lesson.
Exported(cleanContent) == [SeededLessons[1] EXCEPT !.content = cleanContent]

\* rendered = the two exports of the lesson whose content sanitized to
\* clean
Render ==
  /\ sanPc = "once"
  /\ rendered' = [html |-> generateHTMLFromLesson(Exported(clean)),
                  text |-> generateTextFromLesson(Exported(clean))]
  /\ sanPc' = "rendered"
  /\ UNCHANGED <<raw, arg, clean, again, verdict, classified, svcVars>>

(***************************************************************************)
(* Specifications.                                                         *)
(***************************************************************************)
\* The service after the seed script, no request in flight.
Init ==
  /\ lessons = SeededLessons
  /\ nextId = Len(SeededLessons) + 1
  /\ req = [r \in Reqs |-> Idle]
  /\ started = 0
  /\ raw = Null /\ arg = Null /\ clean = NotYet /\ again = NotYet /\ sanPc = "off"
  /\ verdict = NotYet /\ rendered = NotYet /\ classified = NotYet

\* The steps of the request held in slot r.
Step(r) ==
  \/ \E a \in CreateBodies : CreateStart(r, a)
  \/ CreateCheck(r)
  \/ CreateInsert(r)
  \/ CreatePopulate(r)
  \/ \E a \in UpdateBodies : UpdateStart(r, a)
  \/ UpdateCheck(r)
  \/ UpdateSave(r)
  \/ UpdatePopulate(r)
  \/ \E a \in LessonParams : DeleteStart(r, a)
  \/ DeleteOne(r)
  \/ \E a \in ContentBodies : ContentStart(r, a)
  \/ ContentSave(r)
  \/ \E a \in ToggleBodies : ToggleStart(r, a)
  \/ ToggleSave(r)
  \/ \E a \in LessonParams : DuplicateStart(r, a)
  \/ DuplicateLast(r)
  \/ DuplicateInsert(r)
  \/ DuplicatePopulate(r)
  \/ \E a \in ReorderBodies : ReorderStart(r, a)
  \/ \E i \in 1..MaxBatch : ReorderUpdate(r, i)
  \/ ReorderFind(r)
  \/ \E a \in ListBodies : ListStart(r, a)
  \/ ListFind(r)
  \/ \E a \in GetBodies : GetStart(r, a)
  \/ GetPopulate(r)
  \/ \E a \in AllBodies : AllStart(r, a)
  \/ AllFind(r)
  \/ StorageFailure(r)
  \/ Retire(r)

\* Requests interleave at their awaited calls.
Next == \E r \in Reqs : Step(r)
Spec == Init /\ [][Next]_vars

\* One request at a time.
SeqNext == Step("r1")
SeqSpec == Init /\ [][SeqNext]_vars

\* The sanitizer alone, on every raw document.
SanStart ==
  /\ SanInit
  /\ lessons = SeededLessons
  /\ nextId = Len(SeededLessons) + 1
  /\ req = [r \in Reqs |-> Idle]
  /\ started = 0
SanNext == SanitizeOnce \/ SanitizeTwice
SanSpec == SanStart /\ [][SanNext]_vars

\* The exports of every stored content, sanitized first.
RenderStart ==
  /\ raw \in RenderContents
  /\ arg = raw
  /\ clean = NotYet /\ again = NotYet /\ verdict = NotYet /\ rendered = NotYet
  /\ classified = NotYet
  /\ sanPc = "fresh"
  /\ lessons = SeededLessons
  /\ nextId = Len(SeededLessons) + 1
  /\ req = [r \in Reqs |-> Idle]
  /\ started = 0
RenderNext == SanitizeOnce \/ Render
RenderSpec == RenderStart /\ [][RenderNext]_vars

\* The strict validators alone, on every raw document.
StrictNext == ValidateStrict
StrictSpec == SanStart /\ [][StrictNext]_vars

\* The classifiers alone, on every URL.
ClassifyStart ==
  /\ raw \in Urls
  /\ arg = raw
  /\ clean = NotYet /\ again = NotYet /\ verdict = NotYet /\ rendered = NotYet
  /\ classified = NotYet
  /\ sanPc = "fresh"
  /\ lessons = SeededLessons
  /\ nextId = Len(SeededLessons) + 1
  /\ req = [r \in Reqs |-> Idle]
  /\ started = 0
ClassifyNext == Classify
ClassifySpec == ClassifyStart /\ [][ClassifyNext]_vars

(***************************************************************************)
(* Properties of the media classifiers (checked under ClassifySpec).       *)
(***************************************************************************)
\* The parts of a URL that parses: the host is its second token, the path
\* runs from the third token to the query, which starts with the first
\* token that holds a question mark.
QueryTokens == {"?fmt=.png", "?ref=", "?u=", "/watch?v=", "/watch?feature=x&v="}
QueryAt(s) ==
  IF \E i \in 3..Len(s) : s[i] \in QueryTokens
  THEN Min({i \in 3..Len(s) : s[i] \in QueryTokens})
  ELSE Len(s) + 1

\* The path ends with a known image extension, in either case.
PathHasExtension(s) ==
  /\ s[1] = "https://"
  /\ QueryAt(s) > 3
  /\ LowerTok(s[QueryAt(s) - 1]) \in imageExtensions

\* The host is a domain of the allow-list, or a subdomain of one.
HostOnAllowList(s) ==
  s[1] = "https://" /\ \E domain \in imageDomains : domain \in Parts(s[2])

\* C21: validateImageUrl reports isValid = true exactly when the URL
\* parses and its path has a known image extension, or its host is on the
\* allow-list of image hosts, or it is a data:image/ URI; an extension or
\* a listed domain in the query string alone does not make it valid.
C21_ImageValidByPathOrHost ==
  sanPc = "classified" =>
    (Get(classified.image, "isValid") = Bool(TRUE)) =
      /\ raw.k = "str"
      /\ ParsesAsURL(raw.s)
      /\ \/ PathHasExtension(raw.s)
         \/ HostOnAllowList(raw.s)
         \/ StartsWith(raw.s, "data:image/")

\* The services whose pattern a URL matches.
MatchesYouTube(s) == YouTubeFirst(s) \cup YouTubeSecond(s) \cup YouTubeThird(s) # {}
MatchesVimeo(s) == VimeoMatches(s) # {}
MatchesCodepen(s) == CodepenMatches(s) # {}
MatchesTrusted(s) == \E trusted \in trustedDomains : trusted \in Parts(Hostname(s))

\* The result names the service with the width and height.
Reports(result, service, width, height) ==
  /\ Get(result, "isValid") = Bool(TRUE)
  /\ Get(result, "service") = S(service)
  /\ Get(result, "width") = Num(width)
  /\ Get(result, "height") = Num(height)

\* The result is a rejection with a message.
Rejects(result) ==
  /\ Get(result, "isValid") = Bool(FALSE)
  /\ Get(result, "message").k = "str" /\ Get(result, "message") # EmptyStr

\* C22: validateEmbedUrl reports the first service, in the order YouTube,
\* Vimeo, CodePen, trusted iframe domain, whose pattern the URL matches,
\* with that service's width and height (560x315, 640x360, 800x400,
\* 800x600); a trusted iframe match has the input URL as embedUrl; a URL
\* that matches none is rejected with a message.
C22_FirstServiceWins ==
  sanPc = "classified" =>
    IF raw.k # "str" \/ ~ParsesAsURL(raw.s) THEN Rejects(classified.embed)
    ELSE IF MatchesYouTube(raw.s) THEN Reports(classified.embed, "youtube", 560, 315)
    ELSE IF MatchesVimeo(raw.s) THEN Reports(classified.embed, "vimeo", 640, 360)
    ELSE IF MatchesCodepen(raw.s) THEN Reports(classified.embed, "codepen", 800, 400)
    ELSE IF MatchesTrusted(raw.s)
    THEN /\ Reports(classified.embed, "iframe", 800, 600)
         /\ Get(classified.embed, "embedUrl") = raw
    ELSE Rejects(classified.embed)

\* C22 witness: a Vimeo address that carries a YouTube address in its query
\* has been classified, as YouTube; and so has the Vimeo address alone.
C22_Witness ==
  /\ sanPc = "classified"
  /\ raw.k = "str" /\ ParsesAsURL(raw.s)
  /\ Hostname(raw.s) = "vimeo.com"
  /\ MatchesYouTube(raw.s) /\ MatchesVimeo(raw.s)
  /\ Get(classified.embed, "service") = S("youtube")
  /\ Get(classified.embed, "videoId") = S("jNQXAC9IVRw")

(***************************************************************************)
(* Properties of the sanitizer (checked under SanSpec).                    *)
(***************************************************************************)
\* The blocks of a document the sanitizer returned.
BlocksOf(doc) == Get(doc, "blocks").a

\* C8: the sanitizer is idempotent: sanitizing a sanitized document gives
\* the same time, version and blocks (id, type and data of each), whatever
\* the clock and the random stream of the second call.
C8_SanitizeIdempotent ==
  sanPc = "twice" => again = clean

\* C8 witness: a document with a media block that failed classification
\* has been sanitized twice.
C8_Witness ==
  /\ sanPc = "twice"
  /\ \E i \in 1..Len(BlocksOf(clean)) :
       Get(Get(BlocksOf(clean)[i], "data"), "invalid") = Bool(TRUE)
  /\ clean # raw

\* Whether an entry of an output blocks array is as C9 says.
WellFormedBlock(block) ==
  /\ block.k = "obj"
  /\ TypeOf(Get(block, "type")) = "string" /\ Get(block, "type") # EmptyStr
  /\ TypeOf(Get(block, "id")) = "string"
  /\ Get(block, "data").k = "obj"

\* C9: every entry of the blocks of a sanitized document is a non-null
\* object with a non-empty string type, a string id and an object data.
C9_BlocksWellFormed ==
  sanPc = "once" /\ clean # TypeError =>
    \A i \in 1..Len(BlocksOf(clean)) : WellFormedBlock(BlocksOf(clean)[i])

\* The inputs for which C10 promises an empty blocks array: null, a
\* non-object, an object without blocks, an object whose blocks is no array.
DegenerateInput(content) ==
  \/ ~Truthy(content)
  \/ TypeOf(content) # "object"
  \/ Get(content, "blocks") = Undef
  \/ ~IsArray(Get(content, "blocks"))

\* C10: the sanitizer is total: it never throws and returns a document
\* with a blocks array, which is empty for the degenerate inputs.
C10_SanitizeTotal ==
  sanPc = "once" =>
    /\ clean # TypeError
    /\ clean.k = "obj"
    /\ IsArray(Get(clean, "blocks"))
    /\ DegenerateInput(raw) => BlocksOf(clean) = <<>>

\* C10 witness: a document whose blocks array holds null next to a block
\* has been sanitized, and the block is all that is left.
C10_Witness ==
  /\ sanPc = "once"
  /\ IsArray(Get(raw, "blocks"))
  /\ \E i \in 1..Len(BlocksOf(raw)) : BlocksOf(raw)[i] = Null
  /\ Len(BlocksOf(clean)) = 1

\* An entry of a blocks array is an object (an array is one; null is not).
ObjectValued(entry) == entry.k \in {"obj", "arr"}

\* The output block comes from the input entry: it has the entry's id and
\* type where the entry has usable ones, and every field of its data.
ComesFrom(out, entry) ==
  /\ Truthy(Get(entry, "id")) => Get(out, "id") = Get(entry, "id")
  /\ Get(entry, "type").k = "str" /\ Get(entry, "type") # EmptyStr
       => Get(out, "type") = Get(entry, "type")
  /\ Get(entry, "data").k = "obj"
       => DOMAIN Get(entry, "data").o \subseteq DOMAIN Get(out, "data").o

\* C11: the sanitizer drops exactly the entries of the input blocks array
\* that are not objects: the output blocks are, one for one and in the
\* same order, the object-valued input entries.
C11_KeepsObjectEntries ==
  sanPc = "once" /\ IsArray(Get(raw, "blocks")) /\ clean.k = "obj" =>
    LET kept == SelectSeq(BlocksOf(raw), ObjectValued) IN
    /\ Len(BlocksOf(clean)) = Len(kept)
    /\ \A j \in 1..Len(kept) : ComesFrom(BlocksOf(clean)[j], kept[j])

\* C11 witness: of a number and a block, in this order, the block alone is
\* in the output.
C11_Witness ==
  /\ sanPc = "once"
  /\ IsArray(Get(raw, "blocks")) /\ Len(BlocksOf(raw)) = 2
  /\ BlocksOf(raw)[1] = Num(7)
  /\ Get(BlocksOf(raw)[2], "id") = S("b3")
  /\ Len(BlocksOf(clean)) = 1
  /\ Get(BlocksOf(clean)[1], "id") = S("b3")

\* C12: an object-valued entry whose type is missing, empty or no string
\* is in the output with type 'paragraph'; one whose type is a non-empty
\* string keeps its type.
C12_TypeRepaired ==
  sanPc = "once" /\ IsArray(Get(raw, "blocks")) /\ clean.k = "obj" =>
    LET kept == SelectSeq(BlocksOf(raw), ObjectValued) IN
    /\ Len(BlocksOf(clean)) = Len(kept)
    /\ \A j \in 1..Len(kept) :
         Get(BlocksOf(clean)[j], "type") =
           IF Get(kept[j], "type").k = "str" /\ Get(kept[j], "type") # EmptyStr
           THEN Get(kept[j], "type") ELSE S("paragraph")

\* C12 witness: a block whose type is the number 3 is a paragraph in the
\* output, next to a block that kept its own type.
C12_Witness ==
  /\ sanPc = "once"
  /\ IsArray(Get(raw, "blocks")) /\ Len(BlocksOf(raw)) = 2
  /\ Get(BlocksOf(raw)[1], "type") = Num(3)
  /\ Get(BlocksOf(raw)[2], "type") = S("custom")
  /\ Len(BlocksOf(clean)) = 2
  /\ Get(BlocksOf(clean)[1], "type") = S("paragraph")
  /\ Get(BlocksOf(clean)[2], "type") = S("custom")

\* The entries of the input that the loop keeps, and the data of the j-th
\* of them as it came and as it left (undefined when it is no object).
Kept == SelectSeq(BlocksOf(raw), ObjectValued)
DataIn(j) == Get(Kept[j], "data")
DataOut(j) == Get(BlocksOf(clean)[j], "data")

\* The sanitizer has run on a document with a blocks array.
Sanitized ==
  sanPc = "once" /\ raw.k = "obj" /\ IsArray(Get(raw, "blocks")) /\ clean.k = "obj"

\* The j-th output block has the type.
OfType(j, type) == Get(BlocksOf(clean)[j], "type") = S(type)

\* A header level that is kept: an integer from 1 to 6.
LevelInRange(level) == level.k = "num" /\ level.n \in 1..6

\* C23: after the sanitizer every header block has a level that is an
\* integer from 1 to 6: a level in that range is kept, every other level
\* (0, negative, above 6, missing, no number) has become 2.
C23_HeaderLevelClamped ==
  Sanitized =>
    \A j \in 1..Len(BlocksOf(clean)) :
      OfType(j, "header") =>
        Get(DataOut(j), "level") =
          IF LevelInRange(Get(DataIn(j), "level")) THEN Get(DataIn(j), "level") ELSE Num(2)

\* C24: after the sanitizer every list block has a style among ordered,
\* unordered and checklist (any other or missing style has become
\* unordered) and an array as items (an array is kept as it is, anything
\* else has become the empty array).
C24_ListRepaired ==
  Sanitized =>
    \A j \in 1..Len(BlocksOf(clean)) :
      OfType(j, "list") =>
        /\ Get(DataOut(j), "style") =
             IF Get(DataIn(j), "style") \in {S("ordered"), S("unordered"), S("checklist")}
             THEN Get(DataIn(j), "style") ELSE S("unordered")
        /\ Get(DataOut(j), "items") =
             IF IsArray(Get(DataIn(j), "items")) THEN Get(DataIn(j), "items") ELSE Arr(<<>>)

\* C24 witness: a list with the style bogus and a string as items has
\* left the sanitizer unordered and without items, next to a list that
\* kept its style and its two items.
C24_Witness ==
  /\ Sanitized
  /\ Len(BlocksOf(clean)) = 2
  /\ OfType(1, "list") /\ OfType(2, "list")
  /\ Get(DataIn(1), "style") = S("bogus") /\ Get(DataIn(1), "items") = S("a")
  /\ Get(DataOut(1), "style") = S("unordered") /\ Get(DataOut(1), "items") = Arr(<<>>)
  /\ Get(DataOut(2), "style") = S("ordered") /\ Len(Get(DataOut(2), "items").a) = 2

\* The fields an image block carries when its URL is accepted.
ImageFieldNames == {"url", "alt", "caption", "stretched", "withBorder", "withBackground"}

\* C25: the sanitizer keeps every image block; it marks the block
\* invalid = true with a non-empty invalidReason exactly when
\* validateImageUrl rejects the block's URL (a missing or empty URL
\* included), and a block whose URL is accepted is not marked and has url,
\* alt, caption, stretched, withBorder and withBackground.
C25_ImageMarkedWhenRejected ==
  Sanitized =>
    /\ Len(BlocksOf(clean)) = Len(Kept)
    /\ \A j \in 1..Len(BlocksOf(clean)) :
         OfType(j, "image") =>
           IF Get(validateImageUrl(Get(DataIn(j), "url")), "isValid") = Bool(TRUE)
           THEN /\ Get(DataOut(j), "invalid") # Bool(TRUE)
                /\ ImageFieldNames \subseteq DOMAIN DataOut(j).o
                /\ Get(DataOut(j), "url") = Get(DataIn(j), "url")
           ELSE /\ Get(DataOut(j), "invalid") = Bool(TRUE)
                /\ Get(DataOut(j), "invalidReason").k = "str"
                /\ Get(DataOut(j), "invalidReason") # EmptyStr

\* C27: the document the sanitizer returns has a number as time and a
\* string as version: a time of the input that is a number and a version
\* that is a string are kept, and anything else is replaced by the default
\* (the clock, "2.28.2").
C27_TimeAndVersion ==
  sanPc = "once" /\ clean.k = "obj" =>
    /\ Get(clean, "time") =
         IF Get(raw, "time").k = "num" THEN Get(raw, "time")
         ELSE IF Get(clean, "time").k = "num" /\ Get(clean, "time").n \in Times
         THEN Get(clean, "time") ELSE Undef
    /\ Get(clean, "version") =
         IF Get(raw, "version").k = "str" THEN Get(raw, "version") ELSE DefaultVersion

\* C28: the sanitizer leaves its argument as it was: the document passed
\* to it and every block of it (type and data included) have after the
\* call the values they had before.
C28_ArgumentUnchanged ==
  sanPc = "once" => arg = raw

(***************************************************************************)
(* Properties of the strict validators (checked under StrictSpec).         *)
(***************************************************************************)
\* What C14 counts as a violation of the document itself ...
LacksField(content) ==
  \/ content \in {Null, Undef}
  \/ ~IsArray(Get(content, "blocks"))
  \/ TypeOf(Get(content, "time")) # "number"
  \/ TypeOf(Get(content, "version")) # "string"

\* ... and of a block, checked in the order object, type, data ("" when
\* the block has none).
Offence(block) ==
  IF ~ObjectValued(block) THEN " must be a valid object"
  ELSE IF TypeOf(Get(block, "type")) # "string" THEN " must have a valid type"
  ELSE IF ~ObjectValued(Get(block, "data")) THEN " must have valid data"
  ELSE ""

\* The positions of the offending blocks of a document with all its fields.
Offending(content) ==
  {i \in 1..Len(BlocksOf(content)) : Offence(BlocksOf(content)[i]) # ""}

\* C14: each strict validator returns isValid=false exactly when the
\* content is missing, lacks a blocks array, a numeric time or a string
\* version, or has a block that is no object or lacks a string type or an
\* object data; for a document with all its fields, validateContent
\* reports the offending block of the lowest index.
C14_StrictFailsClosed ==
  sanPc = "validated" =>
    /\ \A f \in DOMAIN verdict :
         /\ verdict[f] # TypeError
         /\ verdict[f].isValid = ~(LacksField(raw) \/ Offending(raw) # {})
    /\ ~LacksField(raw) /\ Offending(raw) # {}
         => LET i == CHOOSE i \in Offending(raw) : \A j \in Offending(raw) : i <= j
            IN verdict.validateContent.message =
                 BlockMessage(i, Offence(BlocksOf(raw)[i]))

(***************************************************************************)
(* Properties of the exports (checked under RenderSpec).                   *)
(***************************************************************************)
\* An image block that the sanitizer marked invalid.
InvalidImage(block) ==
  Get(block, "type") = S("image") /\ Data(block, "invalid") = Bool(TRUE)

\* The fragment of one block: what the HTML of a document of this block
\* alone has between the head and the foot.
Fragment(block) ==
  LET whole == generateHTMLFromLesson(Exported(Document(Num(5), <<block>>, DefaultVersion))).s
  IN SubSeq(whole, Len(HtmlHead(Exported(Null)).s) + 1, Len(whole) - Len(HtmlFoot.s))

\* The fragments of blocks[i..], in order, without the invalid images.
RECURSIVE Fragments(_, _)
Fragments(blocks, i) ==
  IF i > Len(blocks) THEN <<>>
  ELSE (IF InvalidImage(blocks[i]) THEN <<>> ELSE Fragment(blocks[i])) \o
       Fragments(blocks, i + 1)

\* C15: the HTML of a document is the head, the fragments of its blocks
\* in the order of the blocks array, and the foot; an image block with
\* data.invalid = true adds nothing, and the blocks around it are rendered.
C15_FragmentsInOrder ==
  sanPc = "rendered" /\ rendered.html.k = "str" =>
    rendered.html.s =
      HtmlHead(Exported(clean)).s \o Fragments(BlocksOf(clean), 1) \o HtmlFoot.s

\* C15 witness: a paragraph, an invalid image and a header, in this order,
\* have been exported: the paragraph is followed by the header.
C15_Witness ==
  /\ sanPc = "rendered" /\ rendered.html.k = "str"
  /\ Len(BlocksOf(clean)) = 3
  /\ Get(BlocksOf(clean)[1], "type") = S("paragraph")
  /\ InvalidImage(BlocksOf(clean)[2])
  /\ Get(BlocksOf(clean)[3], "type") = S("header")
  /\ rendered.html.s =
       HtmlHead(Exported(clean)).s \o
       <<"<p>", "hi", "</p>", "<h", "3", ">", "h", "</h", "3", ">">> \o HtmlFoot.s

\* The URL of a video or embed block: block.data.url || block.data.source.
EmbedUrlOf(block) == Or(Data(block, "url"), Data(block, "source"))

\* The data has the fields of an accepted URL.
CarriesEmbed(data, url, validation) ==
  /\ Get(data, "service") = Get(validation, "service")
  /\ Get(data, "url") = url
  /\ Get(data, "embed") = Get(validation, "embedUrl")
  /\ Get(data, "width") = Get(validation, "width")
  /\ Get(data, "height") = Get(validation, "height")
  /\ Get(data, "caption").k = "str"
  /\ Get(validation, "service") = S("youtube") =>
       /\ Get(data, "videoId") = Get(validation, "videoId")
       /\ Get(data, "thumbnail") = Get(validation, "thumbnailUrl")

\* A video or embed block that is marked invalid, and the others.
RejectedEmbed(block) ==
  Get(block, "type") \in {S("video"), S("embed")} /\ Data(block, "invalid") = Bool(TRUE)
OtherThanRejectedEmbed(block) == ~RejectedEmbed(block)

KnownKind(block) ==
  Get(block, "type").k = "str" /\ Len(Get(block, "type").s) = 1
  /\ Get(block, "type").s[1] \in blockTypeEnum

\* C16: both exports return a string, without throwing, for every document
\* the sanitizer produces, and the blocks of an unknown type add nothing:
\* the exports are those of the document without them.
C16_ExportsTotal ==
  sanPc = "rendered" =>
    /\ rendered.html.k = "str"
    /\ rendered.text.k = "str"
    /\ LET known == Document(Get(clean, "time"), SelectSeq(BlocksOf(clean), KnownKind),
                             Get(clean, "version"))
       IN /\ rendered.html = generateHTMLFromLesson(Exported(known))
          /\ rendered.text = generateTextFromLesson(Exported(known))

(***************************************************************************)
(* Properties of the lifecycle service.                                    *)
(***************************************************************************)
\* The response is an error response.
Failed(r) == req[r].pc = "done" /\ req[r].resp.status >= 400

\* The duplicate key errors of a write.
DuplicateKeyErrors == {"E11000_slug", "E11000_tutorial_order"}

\* C1: no two stored lessons of the same tutorial have the same order, in
\* every state of every interleaving of the requests.
C1_UniqueOrders ==
  \A i, j \in DOMAIN lessons :
    i # j /\ lessons[i].tutorial = lessons[j].tutorial => lessons[i].order # lessons[j].order

\* C1 witness: two creates raced for one order; one lesson was stored, and
\* the other insert was rejected by the unique index.
C1_Witness ==
  \E r, other \in Reqs :
    /\ req[r].op = "create" /\ req[other].op = "create"
    /\ req[r].resp.status = 201
    /\ req[other].resp.error = "E11000_tutorial_order"
    /\ Cardinality(DOMAIN lessons) = Len(SeededLessons) + 1

\* The create request in slot r has stored its lesson.
Persisted(r) == req[r].pc = "create_populate" \/ req[r].resp.status = 201

\* Slots r and other hold two createLesson requests, the only requests so
\* far, for one tutorial and one (whole) order; r has stored its lesson and
\* other has passed its pre-check, which therefore ran before r's insert.
CreateRace(r, other) ==
  /\ r # other /\ started = 2
  /\ req[r].op = "create" /\ req[other].op = "create"
  /\ req[r].a.tutorialId = req[other].a.tutorialId
  /\ req[r].a.order = req[other].a.order
  /\ req[r].a.order = Halves(ParseInt(req[r].a.order))
  /\ Persisted(r)
  /\ req[other].pc = "create_insert"

\* C2: of two concurrent createLesson requests for one tutorial and one
\* order that both passed the pre-check before either stored its lesson,
\* only one stores a lesson, and the insert of the other is answered 400
\* (unless the store itself fails), not 500.
C2_LoserGetsConflict ==
  [][\A r, other \in Reqs :
       CreateRace(r, other) /\ req'[other] # req[other]
       => /\ lessons' = lessons
          /\ req'[other].pc = "done"
          /\ req'[other].resp.error = "storage" \/ req'[other].resp.status = 400]_vars

\* The fields of a create body pass the checks of lines 409-438.
ValidCreate(a) ==
  /\ Trim(a.title) # <<>>
  /\ a.order >= Halves(1)
  /\ a.duration >= 1
  /\ a.tutorialId \in Tutorials

\* A lesson of the tutorial has the order the body names.
OrderUsed(store, a) ==
  \E id \in DOMAIN store :
    store[id].tutorial = a.tutorialId /\ Halves(store[id].order) = a.order

\* C3: a createLesson whose order a lesson of the tutorial already has (and
\* which the store does not fail) is answered with the conflict error and
\* leaves the lessons as they were.
C3_UsedOrderRejected ==
  \A r \in Reqs :
    /\ req[r].op = "create" /\ req[r].pc = "done"
    /\ ValidCreate(req[r].a)
    /\ OrderUsed(req[r].before, req[r].a)
    /\ req[r].resp.error # "storage"
    => /\ req[r].resp.status = 400
       /\ req[r].resp.message \in {DuplicateOrderMessage, DuplicateKeyMessage}
       /\ lessons = req[r].before

\* C3 witness: a create for order 1 of the seeded tutorial was answered.
C3_Witness ==
  /\ req["r1"].op = "create" /\ req["r1"].pc = "done"
  /\ req["r1"].a.tutorialId = "T1" /\ req["r1"].a.order = Halves(1)
  /\ req["r1"].resp.status = 400
  /\ req["r1"].resp.message = DuplicateOrderMessage
  /\ lessons = req["r1"].before

\* The reorder request of the spec's example: lessons 3 and 1 swap.
SwapRequest ==
  [tutorialId |-> "T1", lessonOrders |-> Arr(<<Entry(3, Halves(1)), Entry(1, Halves(3))>>)]

\* C4: the swap request on the seeded lessons (orders 1, 2, 3) completes
\* with lesson 3 at order 1, lesson 1 at order 3 and lesson 2 at order 2.
C4_SwapCompletes ==
  \A r \in Reqs :
    /\ req[r].op = "reorder" /\ req[r].a = SwapRequest
    /\ req[r].before = SeededLessons
    /\ req[r].pc = "done" /\ Settled(r)
    /\ req[r].resp.error # "storage"
    => /\ req[r].resp.status = 200
       /\ lessons[3].order = 1 /\ lessons[1].order = 3 /\ lessons[2].order = 2

\* C5: a reorder batch one of whose updates failed has changed no order.
C5_ReorderAtomic ==
  \A r \in Reqs :
    /\ req[r].op = "reorder" /\ req[r].pc = "done" /\ Settled(r)
    /\ req[r].resp.error = "E11000_tutorial_order"
    => \A id \in DOMAIN req[r].before :
         id \in DOMAIN lessons /\ lessons[id].order = req[r].before[id].order

\* C6: duplicateLesson of an existing lesson (which the store does not
\* fail) stores exactly one new lesson, in the tutorial of the original,
\* unpublished, without publishedAt, ordered after the last lesson of the
\* tutorial, and leaves every other lesson as it was.
C6_DuplicateCreatesOne ==
  \A r \in Reqs :
    /\ req[r].op = "duplicate" /\ req[r].pc = "done"
    /\ req[r].a.id \in DOMAIN req[r].before
    /\ req[r].resp.error # "storage"
    => \E new \in DOMAIN lessons \ DOMAIN req[r].before :
         LET original == req[r].before[req[r].a.id] IN
         /\ DOMAIN lessons = DOMAIN req[r].before \cup {new}
         /\ lessons[new].tutorial = original.tutorial
         /\ ~lessons[new].isPublished
         /\ lessons[new].publishedAt = NoDate
         /\ lessons[new].order = NextOrder(req[r].before, original.tutorial)
         /\ \A id \in DOMAIN req[r].before : lessons[id] = req[r].before[id]

\* C7: when createLesson, duplicateLesson, updateLesson,
\* updateLessonContent or togglePublishStatus answers an error, the stored
\* lessons are those of before the request.
C7_ErrorLeavesStore ==
  \A r \in Reqs :
    /\ req[r].op \in {"create", "duplicate", "update", "content", "toggle"}
    /\ Failed(r)
    => lessons = req[r].before

\* The request in slot r carries a content whose one block has a type
\* outside the known kinds.
CarriesCustom(r) ==
  /\ req[r].op \in {"create", "update", "content"}
  /\ req[r].op = "update" => "content" \in req[r].a.has
  /\ req[r].a.content = OneCustom

\* C13: a createLesson, updateLesson or updateLessonContent request whose
\* content holds a block of an unknown type is not rejected for it, and
\* when it succeeds the block is stored with its type and data.
C13_UnknownTypeAccepted ==
  \A r \in Reqs :
    CarriesCustom(r) /\ req[r].pc = "done"
    => /\ req[r].resp.error # "ValidationError"
       /\ req[r].resp.status < 300
            => \E id \in DOMAIN lessons :
                 BlocksOf(lessons[id].content) = <<Custom>>

\* C17: a duplicate (tutorial, order) conflict that the unique index
\* detects in createLesson or updateLesson is answered as the one the
\* pre-check detects: status 400 and the pre-check's message.
C17_SameConflictResponse ==
  \A r \in Reqs :
    /\ req[r].op \in {"create", "update"} /\ req[r].pc = "done"
    /\ req[r].resp.error = "E11000_tutorial_order"
    => /\ req[r].resp.status = 400
       /\ req[r].resp.message = DuplicateOrderMessage

\* C18: an updateLesson or togglePublishStatus that has set isPublished
\* to true on a lesson that was published already has left its publishedAt
\* as it was, and one that has set it to false has cleared publishedAt.
C18_PublishedAtOnTransition ==
  \A r \in Reqs :
    /\ req[r].op \in {"update", "toggle"}
    /\ req[r].pc = "done" /\ req[r].resp.status = 200
    /\ req[r].op = "update" => "isPublished" \in req[r].a.has
    /\ req[r].a.id \in DOMAIN req[r].before \cap DOMAIN lessons
    => LET was == req[r].before[req[r].a.id]
           is == lessons[req[r].a.id]
       IN IF req[r].a.isPublished
          THEN was.isPublished => is.publishedAt = was.publishedAt
          ELSE is.publishedAt = NoDate

\* The messages of the rejections of updateLesson that C19 names.
UpdateRejections ==
  {"Lesson title cannot be empty", "Order must be a positive number",
   "Duration must be a positive number", DuplicateOrderMessage}

\* C19: an updateLesson that is rejected for an empty title, an order or a
\* duration below 1 or an order that another lesson of the tutorial has
\* leaves every stored lesson as it was, content included; and an
\* updateLesson whose order is the lesson's current order is not answered
\* with an order conflict.
C19_RejectedUpdateLeavesLesson ==
  \A r \in Reqs :
    /\ req[r].op = "update" /\ req[r].pc = "done"
    /\ req[r].a.id \in DOMAIN req[r].before
    => /\ req[r].resp.status = 400 /\ req[r].resp.message \in UpdateRejections
            => lessons = req[r].before
       /\ "order" \in req[r].a.has
          /\ req[r].a.order = Halves(req[r].before[req[r].a.id].order)
            => req[r].resp.message \notin {DuplicateOrderMessage, DuplicateKeyMessage}

\* C19 witness: an updateLesson of lesson 3 that carried a content and the
\* order of another lesson was answered with the conflict, and lesson 3
\* is as it was.
C19_Witness ==
  /\ req["r1"].op = "update" /\ req["r1"].pc = "done"
  /\ req["r1"].a.id = 3 /\ "content" \in req["r1"].a.has
  /\ req["r1"].resp.message = DuplicateOrderMessage
  /\ lessons[3] = req["r1"].before[3]
  /\ lessons[3].content = EmptyDocument

Named(a) == {a.lessonOrders.a[i].lessonId : i \in 1..Len(a.lessonOrders.a)}

\* C29: reorderLessons for a tutorial changes only the order of lessons of
\* that tutorial which the request names: a pair that names a lesson of
\* another tutorial changes nothing, and no lesson's tutorial, title,
\* content, duration or publish state is changed (one request at a time).
C29_ReorderChangesOnlyOrder ==
  \A r \in Reqs :
    req[r].op = "reorder" =>
      /\ DOMAIN lessons = DOMAIN req[r].before
      /\ \A id \in DOMAIN lessons :
           /\ [lessons[id] EXCEPT !.order = req[r].before[id].order] = req[r].before[id]
           /\ lessons[id].order # req[r].before[id].order =>
                /\ req[r].before[id].tutorial = req[r].a.tutorialId
                /\ id \in Named(req[r].a)

\* C29 witness: a reorder for the second tutorial that names lesson 1 of
\* the first has been answered 200, and lesson 1 has the order it had.
C29_Witness ==
  /\ req["r1"].op = "reorder" /\ req["r1"].pc = "done"
  /\ req["r1"].resp.status = 200
  /\ req["r1"].a.tutorialId = "T2"
  /\ Named(req["r1"].a) = {1}
  /\ lessons[1].tutorial = "T1"
  /\ lessons[1].order = 1
  /\ lessons = req["r1"].before

\* C30: a caller who is no admin never receives, from getLessonsByTutorial,
\* getLessonById or getAllLessons, a lesson that is unpublished or a lesson
\* of an unpublished tutorial.
C30_RegularSeesPublishedOnly ==
  \A r \in Reqs :
    /\ req[r].op \in {"list", "get", "all"}
    /\ req[r].pc = "done" /\ req[r].resp.status = 200
    /\ ~req[r].a.admin
    => \A i \in 1..Len(req[r].loc.data) :
         /\ req[r].loc.data[i].isPublished
         /\ req[r].loc.data[i].tutorial \notin UnpublishedTutorials

====
